---- MODULE Spec2Model ----
(***************************************************************************)
(* A model of the task tracker's in-memory structures:                     *)
(*   data_structures/Stack.py       Stack, TaskAction, UndoRedoManager     *)
(*   data_structures/LinkedList.py  Node, LinkedList, TaskLinkedList       *)
(*   data_structures/bst.py         TaskNode, BST                          *)
(*   data_structures/queue.py       Queue                                  *)
(*   db/taskdb.py                   TaskDatabase                           *)
(*   main.py                        TaskManagerApp (the button handlers)   *)
(*                                                                         *)
(* Every method is an operator from the object's state (and the call's     *)
(* arguments) to a record [self, ret, raised]: the object's state after    *)
(* the call, the value returned and the exception raised ("no" when the    *)
(* call returns).  An action of a specification calls one method on the    *)
(* specification's object and appends the call to the log `hist`.          *)
(*                                                                         *)
(* Python's None is the empty tuple <<>>; a value v that a method returns  *)
(* where it may also return None is the one-element tuple <<v>>.           *)
(***************************************************************************)
EXTENDS Integers, Sequences, FiniteSets, TLC

VARIABLES
    hist,       \* the calls made so far: [op, arg, ret, raised], oldest first
    stack,      \* a Stack                       (Stack.py:28)
    undo_redo,  \* an UndoRedoManager            (Stack.py:177)
    task_list,  \* a TaskLinkedList              (LinkedList.py:342)
    bst,        \* a BST                         (bst.py:7)
    app,        \* a TaskManagerApp              (main.py:8)
    added,      \* for each action on app's undo and redo stacks, the id of
                \* the row the store last added for it (not in the code)
    queue       \* a Queue                       (queue.py:10)

vars == <<hist, stack, undo_redo, task_list, bst, app, added, queue>>

----------------------------------------------------------------------------
(* Bounds of the model. *)

\* the longest call sequence explored on a Stack
MaxStackOps == 5
\* the largest max_size a Stack is constructed with
MaxCap == 3
\* the calls that count in operation_count, in the specification of single
\* Stack calls
MaxOperations == 5
\* the calls that count in the operation_count of the two stacks together,
\* in the specification of single UndoRedoManager calls
MaxUrmOperations == 8
\* the longest call sequence explored on an UndoRedoManager
MaxUrmOps == 6
\* the largest max_history an UndoRedoManager is constructed with
MaxHistoryCap == 2
\* the longest linked list explored by any sequence of mutators
MaxNodes == 3
\* the longest linked list built by sorted inserts alone
MaxSorted == 4
\* the largest number of records inserted into a BST
MaxTreeNodes == 4
\* the largest id the store hands out
MaxId == 3

----------------------------------------------------------------------------
(* Helpers: Python values and list operations. *)

None == <<>>
Some(v) == <<v>>

\* v is None, for a v that may be a str as well
IsNone(v) == ToString(v) = "<<>>"

\* a == b, for a and b each a str or None
StrEq(a, b) == IF IsNone(a) \/ IsNone(b) THEN IsNone(a) /\ IsNone(b) ELSE a = b

\* not v, for v a str or None
Falsy(v) == Len(v) = 0

\* a method returning v, leaving the object in state self
Ret(self, v) == [self |-> self, ret |-> v, raised |-> "no"]
\* a method raising exception e; the object is as it was when e was raised
Raise(self, e) == [self |-> self, ret |-> None, raised |-> e]

Min(a, b) == IF a <= b THEN a ELSE b

\* Python's s[-n:] for n >= 1: the last n items of s, all of s when n >= len(s)
LastN(s, n) == SubSeq(s, Len(s) - Min(n, Len(s)) + 1, Len(s))

\* Python's s[:-1]
ButLast(s) == SubSeq(s, 1, Len(s) - 1)

Reverse(s) == [i \in 1..Len(s) |-> s[Len(s) + 1 - i]]

----------------------------------------------------------------------------
(* Stack.py: TaskAction.  The timestamp field (datetime.now()) is left out: *)
(* no method of the repository reads it except __str__.                     *)

TaskAction(action_type, task_data, previous_data) ==
    [action_type |-> action_type, task_data |-> task_data,
     previous_data |-> previous_data]

----------------------------------------------------------------------------
(* Stack.py: Stack.  self = [items, max_size, operation_count];            *)
(* items[1] is the bottom (oldest), items[Len(items)] the top.             *)

DefaultMaxSize == 100

Stack_init(max_size) ==
    [items |-> <<>>, max_size |-> max_size, operation_count |-> 0]

Stack_is_empty(self) == Len(self.items) = 0

Stack_is_full(self) == Len(self.items) >= self.max_size

Stack_size(self) == Len(self.items)

\* a push that refuses the item when the stack is full
Stack_push_Rejects(self, item) ==
    IF Len(self.items) >= self.max_size
    THEN Ret(self, FALSE)
    ELSE Ret([self EXCEPT !.items = Append(self.items, item),
                          !.operation_count = @ + 1], TRUE)

\* a push that evicts the newest item instead of the oldest
Stack_push_EvictsTop(self, item) ==
    IF Len(self.items) >= self.max_size
    THEN IF self.items = <<>>
         THEN Raise(self, "IndexError")
         ELSE Ret([self EXCEPT !.items = Append(ButLast(self.items), item),
                               !.operation_count = @ + 1], TRUE)
    ELSE Ret([self EXCEPT !.items = Append(self.items, item),
                          !.operation_count = @ + 1], TRUE)

\* a push that evicts nothing
Stack_push_Grows(self, item) ==
    Ret([self EXCEPT !.items = Append(self.items, item),
                     !.operation_count = @ + 1], TRUE)

\* list.pop(0) raises IndexError on an empty list, before anything is changed
Stack_push(self, item) ==
    IF Len(self.items) >= self.max_size
    THEN IF self.items = <<>>
         THEN Raise(self, "IndexError")
         ELSE Ret([self EXCEPT !.items = Append(Tail(self.items), item),
                               !.operation_count = @ + 1], TRUE)
    ELSE Ret([self EXCEPT !.items = Append(self.items, item),
                          !.operation_count = @ + 1], TRUE)

\* a pop that leaves the item on the stack
Stack_pop_Keeps(self) ==
    IF Stack_is_empty(self)
    THEN Ret(self, None)
    ELSE Ret([self EXCEPT !.operation_count = @ + 1],
             Some(self.items[Len(self.items)]))

\* a pop that takes the bottom item
Stack_pop_Bottom(self) ==
    IF Stack_is_empty(self)
    THEN Ret(self, None)
    ELSE Ret([self EXCEPT !.items = Tail(self.items),
                          !.operation_count = @ + 1],
             Some(self.items[1]))

Stack_pop(self) ==
    IF Stack_is_empty(self)
    THEN Ret(self, None)
    ELSE Ret([self EXCEPT !.items = ButLast(self.items),
                          !.operation_count = @ + 1],
             Some(self.items[Len(self.items)]))

\* a peek that shows the bottom item
Stack_peek_Bottom(self) ==
    IF Stack_is_empty(self)
    THEN Ret(self, None)
    ELSE Ret(self, Some(self.items[1]))

Stack_peek(self) ==
    IF Stack_is_empty(self)
    THEN Ret(self, None)
    ELSE Ret(self, Some(self.items[Len(self.items)]))

RECURSIVE SearchDown_Deepest(_, _, _)
\* a search that goes on to the occurrence nearest the bottom
SearchDown_Deepest(items, i, item) ==
    IF i < 1 THEN -1
    ELSE LET below == SearchDown_Deepest(items, i - 1, item)
         IN  IF below # -1 THEN below
             ELSE IF items[i] = item THEN Len(items) - i
             ELSE -1

RECURSIVE SearchDown(_, _, _)
\* search: `for i in range(len(self._items) - 1, -1, -1)` from index i on
\* (i counts from 1 here)
SearchDown(items, i, item) ==
    IF i < 1 THEN -1
    ELSE IF items[i] = item THEN Len(items) - i
    ELSE SearchDown(items, i - 1, item)

Stack_search(self, item) == Ret(self, SearchDown(self.items, Len(self.items), item))

\* a get_recent_items that takes the oldest items
Stack_get_recent_items_Oldest(self, count) ==
    IF count <= 0 THEN Ret(self, <<>>)
    ELSE Ret(self, SubSeq(self.items, 1, Min(count, Len(self.items))))

Stack_get_recent_items(self, count) ==
    IF count <= 0 THEN Ret(self, <<>>)
    ELSE Ret(self, LastN(self.items, count))

Stack_clear(self) ==
    Ret([self EXCEPT !.items = <<>>, !.operation_count = @ + 1], None)

----------------------------------------------------------------------------
(* Stack.py: UndoRedoManager.  self = [undo_stack, redo_stack, max_history] *)

DefaultMaxHistory == 50

UndoRedoManager_init(max_history) ==
    [undo_stack |-> Stack_init(max_history),
     redo_stack |-> Stack_init(max_history),
     max_history |-> max_history]

\* an execute_action that forgets to clear the redo stack
UndoRedoManager_execute_action_KeepsRedo(self, action) ==
    LET pushed == Stack_push(self.undo_stack, action)
    IN  IF pushed.raised # "no"
        THEN Raise(self, pushed.raised)
        ELSE Ret([self EXCEPT !.undo_stack = pushed.self], None)

UndoRedoManager_execute_action(self, action) ==
    LET pushed == Stack_push(self.undo_stack, action)
    IN  IF pushed.raised # "no"
        THEN Raise(self, pushed.raised)
        ELSE Ret([self EXCEPT !.undo_stack = pushed.self,
                              !.redo_stack = Stack_clear(self.redo_stack).self],
                 None)

\* an undo that forgets the redo stack when there is nothing to undo
UndoRedoManager_undo_ClearsRedo(self) ==
    IF Stack_is_empty(self.undo_stack)
    THEN Ret([self EXCEPT !.redo_stack = Stack_clear(@).self], None)
    ELSE LET popped == Stack_pop(self.undo_stack)
             action == popped.ret[1]
             pushed == Stack_push(self.redo_stack, action)
             after  == [self EXCEPT !.undo_stack = popped.self]
         IN  IF pushed.raised # "no"
             THEN Raise(after, pushed.raised)
             ELSE Ret([after EXCEPT !.redo_stack = pushed.self], Some(action))

\* an undo that slides the action under the redo stack
UndoRedoManager_undo_UnderRedo(self) ==
    IF Stack_is_empty(self.undo_stack)
    THEN Ret(self, None)
    ELSE LET popped == Stack_pop(self.undo_stack)
             action == popped.ret[1]
         IN  Ret([self EXCEPT !.undo_stack = popped.self,
                              !.redo_stack.items = <<action>> \o @,
                              !.redo_stack.operation_count = @ + 1],
                 Some(action))

\* an undo that leaves the action on the undo stack
UndoRedoManager_undo_Copies(self) ==
    IF Stack_is_empty(self.undo_stack)
    THEN Ret(self, None)
    ELSE LET action == Stack_peek(self.undo_stack).ret[1]
             pushed == Stack_push(self.redo_stack, action)
         IN  IF pushed.raised # "no"
             THEN Raise(self, pushed.raised)
             ELSE Ret([self EXCEPT !.redo_stack = pushed.self], Some(action))

UndoRedoManager_undo(self) ==
    IF Stack_is_empty(self.undo_stack)
    THEN Ret(self, None)
    ELSE LET popped == Stack_pop(self.undo_stack)
             action == popped.ret[1]
             pushed == Stack_push(self.redo_stack, action)
             after  == [self EXCEPT !.undo_stack = popped.self]
         IN  IF pushed.raised # "no"
             THEN Raise(after, pushed.raised)
             ELSE Ret([after EXCEPT !.redo_stack = pushed.self], Some(action))

\* a redo that takes the action undone first
UndoRedoManager_redo_Oldest(self) ==
    IF Stack_is_empty(self.redo_stack)
    THEN Ret(self, None)
    ELSE LET action == self.redo_stack.items[1]
             pushed == Stack_push(self.undo_stack, action)
             after  == [self EXCEPT !.redo_stack.items = Tail(@)]
         IN  IF pushed.raised # "no"
             THEN Raise(after, pushed.raised)
             ELSE Ret([after EXCEPT !.undo_stack = pushed.self], Some(action))

\* a redo that drops the action instead of returning it to the undo stack
UndoRedoManager_redo_Drops(self) ==
    IF Stack_is_empty(self.redo_stack)
    THEN Ret(self, None)
    ELSE LET popped == Stack_pop(self.redo_stack)
         IN  Ret([self EXCEPT !.redo_stack = popped.self], Some(popped.ret[1]))

UndoRedoManager_redo(self) ==
    IF Stack_is_empty(self.redo_stack)
    THEN Ret(self, None)
    ELSE LET popped == Stack_pop(self.redo_stack)
             action == popped.ret[1]
             pushed == Stack_push(self.undo_stack, action)
             after  == [self EXCEPT !.redo_stack = popped.self]
         IN  IF pushed.raised # "no"
             THEN Raise(after, pushed.raised)
             ELSE Ret([after EXCEPT !.undo_stack = pushed.self], Some(action))

\* a can_undo that looks at the redo stack
UndoRedoManager_can_undo_LooksAtRedo(self) == ~Stack_is_empty(self.redo_stack)

UndoRedoManager_can_undo(self) == ~Stack_is_empty(self.undo_stack)

UndoRedoManager_can_redo(self) == ~Stack_is_empty(self.redo_stack)

UndoRedoManager_clear_history(self) ==
    Ret([self EXCEPT !.undo_stack = Stack_clear(self.undo_stack).self,
                     !.redo_stack = Stack_clear(self.redo_stack).self], None)

----------------------------------------------------------------------------
(* Python dictionaries and strings.  A task dictionary is a record; a      *)
(* string that the code compares with < or <= (a due date) is the tuple of *)
(* its characters, compared as Python compares str: character by character *)
(* by code point, a proper prefix being smaller.                           *)

\* dict.get(key, default)
Get(dict, key, default) == IF key \in DOMAIN dict THEN dict[key] ELSE default

\* ord(c) of the characters that occur in due dates
Ord(c) ==
    CASE c = "-" -> 45
      [] c = "0" -> 48 [] c = "1" -> 49 [] c = "2" -> 50 [] c = "3" -> 51
      [] c = "4" -> 52 [] c = "5" -> 53 [] c = "6" -> 54 [] c = "7" -> 55
      [] c = "8" -> 56 [] c = "9" -> 57

RECURSIVE Str_lt(_, _)
\* a < b on str
Str_lt(a, b) ==
    IF b = <<>> THEN FALSE
    ELSE IF a = <<>> THEN TRUE
    ELSE IF Head(a) = Head(b) THEN Str_lt(Tail(a), Tail(b))
    ELSE Ord(Head(a)) < Ord(Head(b))

\* a <= b on str
Str_le(a, b) == a = b \/ Str_lt(a, b)

\* the default due date of a dictionary without one: '9999-12-31'
DefaultDueDate == <<"9", "9", "9", "9", "-", "1", "2", "-", "3", "1">>

----------------------------------------------------------------------------
(* LinkedList.py: Node and LinkedList.                                     *)
(* self = [head, tail, size, nodes]: nodes maps each Node object that the  *)
(* list can still reach (an identity 1, 2, ...) to its [data, next, dict]; *)
(* head, tail and next are a Node's identity or Nil (None).  A Node no     *)
(* reference reaches is reclaimed, and a new Node takes the smallest free  *)
(* identity.  A Node holds a reference to the object it was given: data is *)
(* the value of that object and dict its identity, so that two Nodes given *)
(* the same dictionary have the same dict, and a write into the dictionary *)
(* of one shows in both.                                                   *)

Nil == 0
\* what following .next of None, or a walk that never ends, comes to
AttrError == -1
Diverges == -2

RECURSIVE ChainFrom(_, _, _)
\* the nodes met from p by following next, until None (or a node met before)
ChainFrom(nodes, p, seen) ==
    IF p = Nil \/ p \in seen \/ p \notin DOMAIN nodes
    THEN <<>>
    ELSE <<p>> \o ChainFrom(nodes, nodes[p].next, seen \cup {p})

Range(s) == {s[i] : i \in 1..Len(s)}

\* reference counting: only the nodes reachable from head or tail stay
Collect(self) ==
    LET live == Range(ChainFrom(self.nodes, self.head, {}))
                \cup Range(ChainFrom(self.nodes, self.tail, {}))
    IN  [self EXCEPT !.nodes = [n \in live |-> self.nodes[n]]]

\* the identity of the object Node(data) creates
NewNode(self) ==
    CHOOSE n \in 1..(Cardinality(DOMAIN self.nodes) + 1) :
        /\ n \notin DOMAIN self.nodes
        /\ \A m \in 1..(n - 1) : m \in DOMAIN self.nodes

\* the identity of an object that no node but n holds: n where no other
\* node holds an object of that identity, else the smallest one free
FreshDict(nodes, n) ==
    LET held == {nodes[m].dict : m \in (DOMAIN nodes) \ {n}}
    IN  IF n \notin held THEN n
        ELSE CHOOSE d \in 1..(Cardinality(held) + 1) :
                 /\ d \notin held
                 /\ \A e \in 1..(d - 1) : e \in held

\* nodes with the new Node(data) in it, data being an object no node holds
WithNode(nodes, n, data) ==
    nodes @@ (n :> [data |-> data, next |-> Nil, dict |-> FreshDict(nodes, n)])

\* the list in which Node node was given the object of identity dict
Holding(self, node, dict) == [self EXCEPT !.nodes[node].dict = dict]

\* nodes after a write that makes the object of identity dict have the value
\* data: every Node holding that object shows it
Written(nodes, dict, data) ==
    [n \in DOMAIN nodes |->
        IF nodes[n].dict = dict THEN [nodes[n] EXCEPT !.data = data]
        ELSE nodes[n]]

LinkedList_init == [head |-> Nil, tail |-> Nil, size |-> 0, nodes |-> <<>>]

LinkedList_is_empty(self) == self.head = Nil

LinkedList_get_size(self) == self.size

LinkedList_insert_at_head(self, data) ==
    LET new_node == NewNode(self)
        nodes == WithNode(self.nodes, new_node, data)
    IN  IF LinkedList_is_empty(self)
        THEN Ret([self EXCEPT !.nodes = nodes, !.head = new_node,
                              !.tail = new_node, !.size = @ + 1], None)
        ELSE Ret([self EXCEPT !.nodes = [nodes EXCEPT ![new_node].next = self.head],
                              !.head = new_node, !.size = @ + 1], None)

LinkedList_insert_at_tail(self, data) ==
    LET new_node == NewNode(self)
        nodes == WithNode(self.nodes, new_node, data)
    IN  IF LinkedList_is_empty(self)
        THEN Ret([self EXCEPT !.nodes = nodes, !.head = new_node,
                              !.tail = new_node, !.size = @ + 1], None)
        ELSE IF self.tail = Nil
        THEN Raise(self, "AttributeError")
        ELSE Ret([self EXCEPT !.nodes = [nodes EXCEPT ![self.tail].next = new_node],
                              !.tail = new_node, !.size = @ + 1], None)

RECURSIVE Advance(_, _, _)
\* current after `for i in range(n): current = current.next`
Advance(nodes, current, n) ==
    IF n <= 0 THEN current
    ELSE IF current = Nil THEN AttrError
    ELSE Advance(nodes, nodes[current].next, n - 1)

\* an insert_at_position that takes any position that is not negative
LinkedList_insert_at_position_Unchecked(self, position, data) ==
    IF position < 0 THEN Ret(self, FALSE)
    ELSE IF position = 0
    THEN LET r == LinkedList_insert_at_head(self, data) IN Ret(r.self, TRUE)
    ELSE IF position = self.size
    THEN LET r == LinkedList_insert_at_tail(self, data)
         IN  IF r.raised # "no" THEN r ELSE Ret(r.self, TRUE)
    ELSE LET new_node == NewNode(self)
             nodes == WithNode(self.nodes, new_node, data)
             current == Advance(self.nodes, self.head, position - 1)
         IN  IF current = AttrError \/ current = Nil
             THEN Raise(self, "AttributeError")
             ELSE Ret([self EXCEPT
                         !.nodes = [nodes EXCEPT
                                      ![new_node].next = self.nodes[current].next,
                                      ![current].next = new_node],
                         !.size = @ + 1], TRUE)

LinkedList_insert_at_position(self, position, data) ==
    IF position < 0 \/ position > self.size THEN Ret(self, FALSE)
    ELSE IF position = 0
    THEN LET r == LinkedList_insert_at_head(self, data) IN Ret(r.self, TRUE)
    ELSE IF position = self.size
    THEN LET r == LinkedList_insert_at_tail(self, data)
         IN  IF r.raised # "no" THEN r ELSE Ret(r.self, TRUE)
    ELSE LET new_node == NewNode(self)
             nodes == WithNode(self.nodes, new_node, data)
             current == Advance(self.nodes, self.head, position - 1)
         IN  IF current = AttrError \/ current = Nil
             THEN Raise(self, "AttributeError")
             ELSE Ret([self EXCEPT
                         !.nodes = [nodes EXCEPT
                                      ![new_node].next = self.nodes[current].next,
                                      ![current].next = new_node],
                         !.size = @ + 1], TRUE)

LinkedList_delete_at_head(self) ==
    IF LinkedList_is_empty(self) THEN Ret(self, None)
    ELSE LET data == self.nodes[self.head].data
         IN  IF self.head = self.tail
             THEN Ret(Collect([self EXCEPT !.head = Nil, !.tail = Nil,
                                           !.size = @ - 1]), Some(data))
             ELSE Ret(Collect([self EXCEPT !.head = self.nodes[self.head].next,
                                           !.size = @ - 1]), Some(data))

RECURSIVE FindBefore(_, _, _, _)
\* current after `while current.next != target: current = current.next`
FindBefore(nodes, current, target, seen) ==
    IF current = Nil THEN AttrError
    ELSE IF current \in seen THEN Diverges
    ELSE IF nodes[current].next = target THEN current
    ELSE FindBefore(nodes, nodes[current].next, target, seen \cup {current})

LinkedList_delete_at_tail(self) ==
    IF LinkedList_is_empty(self) THEN Ret(self, None)
    ELSE IF self.tail = Nil THEN Raise(self, "AttributeError")
    ELSE LET data == self.nodes[self.tail].data
         IN  IF self.head = self.tail
             THEN Ret(Collect([self EXCEPT !.head = Nil, !.tail = Nil,
                                           !.size = @ - 1]), Some(data))
             ELSE LET current == FindBefore(self.nodes, self.head, self.tail, {})
                  IN  IF current = AttrError THEN Raise(self, "AttributeError")
                      ELSE IF current = Diverges THEN Raise(self, "diverges")
                      ELSE Ret(Collect([self EXCEPT
                                          !.nodes = [@ EXCEPT ![current].next = Nil],
                                          !.tail = current,
                                          !.size = @ - 1]), Some(data))

\* an unlink that leaves size as it was
Unlink_KeepsSize(self, current) ==
    LET node_to_delete == self.nodes[current].next
        nodes == [self.nodes EXCEPT
                    ![current].next = self.nodes[node_to_delete].next]
    IN  Collect([self EXCEPT
                   !.nodes = nodes,
                   !.tail = IF node_to_delete = self.tail THEN current ELSE @])

\* an unlink that drops tail with the last node
Unlink_TailNone(self, current) ==
    LET node_to_delete == self.nodes[current].next
        nodes == [self.nodes EXCEPT
                    ![current].next = self.nodes[node_to_delete].next]
    IN  Collect([self EXCEPT
                   !.nodes = nodes,
                   !.tail = IF node_to_delete = self.tail THEN Nil ELSE @,
                   !.size = @ - 1])

\* an unlink that does not repair tail
Unlink_KeepsTail(self, current) ==
    LET node_to_delete == self.nodes[current].next
        nodes == [self.nodes EXCEPT
                    ![current].next = self.nodes[node_to_delete].next]
    IN  Collect([self EXCEPT !.nodes = nodes, !.size = @ - 1])

\* the list after the node following `current` is unlinked: the body of the
\* `if` in the loops of delete_by_value and delete_task_by_id
Unlink(self, current) ==
    LET node_to_delete == self.nodes[current].next
        nodes == [self.nodes EXCEPT
                    ![current].next = self.nodes[node_to_delete].next]
    IN  Collect([self EXCEPT
                   !.nodes = nodes,
                   !.tail = IF node_to_delete = self.tail THEN current ELSE @,
                   !.size = @ - 1])

RECURSIVE FindBeforeValue(_, _, _, _)
\* delete_by_value: the first node, from current on, whose successor holds
\* value; Nil when the walk reaches the last node without one
FindBeforeValue(nodes, current, value, seen) ==
    IF nodes[current].next = Nil THEN Nil
    ELSE IF current \in seen THEN Diverges
    ELSE IF nodes[nodes[current].next].data = value THEN current
    ELSE FindBeforeValue(nodes, nodes[current].next, value, seen \cup {current})

LinkedList_delete_by_value(self, value) ==
    IF LinkedList_is_empty(self) THEN Ret(self, FALSE)
    ELSE IF self.nodes[self.head].data = value
    THEN Ret(LinkedList_delete_at_head(self).self, TRUE)
    ELSE LET current == FindBeforeValue(self.nodes, self.head, value, {})
         IN  IF current = Nil THEN Ret(self, FALSE)
             ELSE IF current = Diverges THEN Raise(self, "diverges")
             ELSE Ret(Unlink(self, current), TRUE)

LinkedList_get_at_index(self, index) ==
    IF index < 0 \/ index >= self.size THEN Ret(self, None)
    ELSE LET current == Advance(self.nodes, self.head, index)
         IN  IF current = AttrError \/ current = Nil
             THEN Raise(self, "AttributeError")
             ELSE Ret(self, Some(self.nodes[current].data))

LinkedList_update_at_index(self, index, new_data) ==
    IF index < 0 \/ index >= self.size THEN Ret(self, FALSE)
    ELSE LET current == Advance(self.nodes, self.head, index)
         IN  IF current = AttrError \/ current = Nil
             THEN Raise(self, "AttributeError")
             ELSE Ret([self EXCEPT
                         !.nodes[current].data = new_data,
                         !.nodes[current].dict = FreshDict(self.nodes, current)],
                      TRUE)

RECURSIVE DataFrom(_, _, _)
\* the data met from current on by `while current: ...; current = current.next`
DataFrom(nodes, current, seen) ==
    IF current = Nil \/ current \in seen THEN <<>>
    ELSE <<nodes[current].data>>
         \o DataFrom(nodes, nodes[current].next, seen \cup {current})

\* to_list() does not return when next leads back to a node already met
LinkedList_to_list(self) == DataFrom(self.nodes, self.head, {})

RECURSIVE ReverseLoop(_, _, _)
\* [nodes, prev] when the loop `while current:` of reverse() ends
ReverseLoop(nodes, prev, current) ==
    IF current = Nil THEN [nodes |-> nodes, prev |-> prev]
    ELSE ReverseLoop([nodes EXCEPT ![current].next = prev],
                     current, nodes[current].next)

\* a reverse that leaves tail on the node that was last
LinkedList_reverse_KeepsTail(self) ==
    LET done == ReverseLoop(self.nodes, Nil, self.head)
    IN  Ret(Collect([self EXCEPT !.nodes = done.nodes, !.head = done.prev]),
            None)

LinkedList_reverse(self) ==
    LET done == ReverseLoop(self.nodes, Nil, self.head)
    IN  Ret(Collect([self EXCEPT !.tail = self.head, !.nodes = done.nodes,
                                 !.head = done.prev]), None)

LinkedList_clear(self) ==
    Ret(Collect([self EXCEPT !.head = Nil, !.tail = Nil, !.size = 0]), None)

----------------------------------------------------------------------------
(* LinkedList.py: TaskLinkedList(LinkedList).  The data are task records.  *)

RECURSIVE PriorityPosition_BeforeTies(_, _, _, _)
\* a walk that stops at the first node of the same priority
PriorityPosition_BeforeTies(nodes, current, priority, position) ==
    IF current # Nil /\ Get(nodes[current].data, "priority", 0) > priority
    THEN PriorityPosition_BeforeTies(nodes, nodes[current].next, priority,
                                     position + 1)
    ELSE position

RECURSIVE PriorityPosition_WrongWay(_, _, _, _)
\* a walk that compares the wrong way round
PriorityPosition_WrongWay(nodes, current, priority, position) ==
    IF current # Nil /\ Get(nodes[current].data, "priority", 0) <= priority
    THEN PriorityPosition_WrongWay(nodes, nodes[current].next, priority,
                                   position + 1)
    ELSE position

RECURSIVE PriorityPosition(_, _, _, _)
\* position after `while current and current.data.get('priority', 0) >= priority:
\*                     current = current.next; position += 1`
PriorityPosition(nodes, current, priority, position) ==
    IF current # Nil /\ Get(nodes[current].data, "priority", 0) >= priority
    THEN PriorityPosition(nodes, nodes[current].next, priority, position + 1)
    ELSE position

TaskLinkedList_insert_task_by_priority(self, task) ==
    IF LinkedList_is_empty(self)
    THEN LinkedList_insert_at_head(self, task)
    ELSE LET priority == Get(task, "priority", 0)
         IN  IF priority > Get(self.nodes[self.head].data, "priority", 0)
             THEN LinkedList_insert_at_head(self, task)
             ELSE LET position ==
                          PriorityPosition(self.nodes, self.head, priority, 0)
                      r == LinkedList_insert_at_position(self, position, task)
                  IN  IF r.raised # "no" THEN r ELSE Ret(r.self, None)

RECURSIVE DueDatePosition_WrongWay(_, _, _, _)
\* a walk that stops at the first node due no later
DueDatePosition_WrongWay(nodes, current, due_date, position) ==
    IF current # Nil
          /\ Str_lt(due_date, Get(nodes[current].data, "due_date", DefaultDueDate))
    THEN DueDatePosition_WrongWay(nodes, nodes[current].next, due_date,
                                  position + 1)
    ELSE position

RECURSIVE DueDatePosition_BeforeTies(_, _, _, _)
\* a walk that stops at the first record due on the same date
DueDatePosition_BeforeTies(nodes, current, due_date, position) ==
    IF current # Nil
          /\ Str_lt(Get(nodes[current].data, "due_date", DefaultDueDate), due_date)
    THEN DueDatePosition_BeforeTies(nodes, nodes[current].next, due_date,
                                    position + 1)
    ELSE position

RECURSIVE DueDatePosition(_, _, _, _)
\* position after
\* `while current and current.data.get('due_date', '9999-12-31') <= due_date:
\*      current = current.next; position += 1`
DueDatePosition(nodes, current, due_date, position) ==
    IF current # Nil
          /\ Str_le(Get(nodes[current].data, "due_date", DefaultDueDate), due_date)
    THEN DueDatePosition(nodes, nodes[current].next, due_date, position + 1)
    ELSE position

TaskLinkedList_insert_task_by_due_date(self, task) ==
    IF LinkedList_is_empty(self)
    THEN LinkedList_insert_at_head(self, task)
    ELSE LET due_date == Get(task, "due_date", DefaultDueDate)
         IN  IF Str_lt(due_date,
                       Get(self.nodes[self.head].data, "due_date", DefaultDueDate))
             THEN LinkedList_insert_at_head(self, task)
             ELSE LET position ==
                          DueDatePosition(self.nodes, self.head, due_date, 0)
                      r == LinkedList_insert_at_position(self, position, task)
                  IN  IF r.raised # "no" THEN r ELSE Ret(r.self, None)

RECURSIVE StatusFrom(_, _, _, _)
\* result after the loop of get_tasks_by_status, from current on
StatusFrom(nodes, current, status, seen) ==
    IF current = Nil \/ current \in seen THEN <<>>
    ELSE (IF StrEq(Get(nodes[current].data, "status", None), status)
          THEN <<nodes[current].data>> ELSE <<>>)
         \o StatusFrom(nodes, nodes[current].next, status, seen \cup {current})

TaskLinkedList_get_tasks_by_status(self, status) ==
    Ret(self, StatusFrom(self.nodes, self.head, status, {}))

RECURSIVE HighPriorityFrom_Strict(_, _, _, _)
\* a filter that leaves out the records of priority min_priority
HighPriorityFrom_Strict(nodes, current, min_priority, seen) ==
    IF current = Nil \/ current \in seen THEN <<>>
    ELSE (IF Get(nodes[current].data, "priority", 0) > min_priority
          THEN <<nodes[current].data>> ELSE <<>>)
         \o HighPriorityFrom_Strict(nodes, nodes[current].next, min_priority,
                                    seen \cup {current})

RECURSIVE HighPriorityFrom(_, _, _, _)
\* result after the loop of get_high_priority_tasks, from current on
HighPriorityFrom(nodes, current, min_priority, seen) ==
    IF current = Nil \/ current \in seen THEN <<>>
    ELSE (IF Get(nodes[current].data, "priority", 0) >= min_priority
          THEN <<nodes[current].data>> ELSE <<>>)
         \o HighPriorityFrom(nodes, nodes[current].next, min_priority,
                             seen \cup {current})

TaskLinkedList_get_high_priority_tasks(self, min_priority) ==
    Ret(self, HighPriorityFrom(self.nodes, self.head, min_priority, {}))

RECURSIVE FindId(_, _, _, _)
\* mark_task_complete, update_task: the first node, from current on, that
\* holds the task of that id; Nil when there is none
FindId(nodes, current, task_id, seen) ==
    IF current = Nil \/ current \in seen THEN Nil
    ELSE IF Get(nodes[current].data, "id", None) = task_id THEN current
    ELSE FindId(nodes, nodes[current].next, task_id, seen \cup {current})

\* dict d after `for key, value in updates.items(): d[key] = value`
Updated(dict, updates) == updates @@ dict

\* mark_task_complete, now being what datetime.now().strftime(...) gives
TaskLinkedList_mark_task_complete(self, task_id, now) ==
    LET current == FindId(self.nodes, self.head, task_id, {})
    IN  IF current = Nil THEN Ret(self, FALSE)
        ELSE Ret([self EXCEPT
                    !.nodes =
                        Written(@, @[current].dict,
                                Updated(@[current].data,
                                        [status |-> "completed",
                                         completed_date |-> now]))],
                 TRUE)

\* update_task, now being what datetime.now().strftime(...) gives
TaskLinkedList_update_task(self, task_id, updates, now) ==
    LET current == FindId(self.nodes, self.head, task_id, {})
    IN  IF current = Nil THEN Ret(self, FALSE)
        ELSE Ret([self EXCEPT
                    !.nodes =
                        Written(@, @[current].dict,
                                Updated(Updated(@[current].data, updates),
                                        [last_modified |-> now]))],
                 TRUE)

RECURSIVE FindBeforeId(_, _, _, _)
\* delete_task_by_id: the first node, from current on, whose successor holds
\* the task of that id; Nil when the walk reaches the last node without one
FindBeforeId(nodes, current, task_id, seen) ==
    IF nodes[current].next = Nil THEN Nil
    ELSE IF current \in seen THEN Diverges
    ELSE IF Get(nodes[nodes[current].next].data, "id", None) = task_id THEN current
    ELSE FindBeforeId(nodes, nodes[current].next, task_id, seen \cup {current})

TaskLinkedList_delete_task_by_id(self, task_id) ==
    IF LinkedList_is_empty(self) THEN Ret(self, None)
    ELSE IF Get(self.nodes[self.head].data, "id", None) = task_id
    THEN LinkedList_delete_at_head(self)
    ELSE LET current == FindBeforeId(self.nodes, self.head, task_id, {})
         IN  IF current = Nil THEN Ret(self, None)
             ELSE IF current = Diverges THEN Raise(self, "diverges")
             ELSE Ret(Unlink(self, current),
                      Some(self.nodes[self.nodes[current].next].data))

----------------------------------------------------------------------------
(* data_structures/bst.py: TaskNode and BST (bst.py at the top of the      *)
(* repository is the same code reading task.priority for                   *)
(* task['priority']).  self = [root, nodes]: nodes[n] is the n-th TaskNode *)
(* created, [task, left, right]; root, left and right are a TaskNode's     *)
(* number or Nil.  No TaskNode is ever dropped.                            *)

BST_init == [root |-> Nil, nodes |-> <<>>]

TaskNode(task) == [task |-> task, left |-> Nil, right |-> Nil]

RECURSIVE BST_insert_rec_TiesLeft(_, _, _)
\* an _insert that sends an equal priority left
BST_insert_rec_TiesLeft(nodes, node, task) ==
    IF node = Nil
    THEN [nodes |-> Append(nodes, TaskNode(task)), node |-> Len(nodes) + 1]
    ELSE IF task.priority <= nodes[node].task.priority
    THEN LET r == BST_insert_rec_TiesLeft(nodes, nodes[node].left, task)
         IN  [nodes |-> [r.nodes EXCEPT ![node].left = r.node], node |-> node]
    ELSE LET r == BST_insert_rec_TiesLeft(nodes, nodes[node].right, task)
         IN  [nodes |-> [r.nodes EXCEPT ![node].right = r.node], node |-> node]

RECURSIVE BST_insert_rec_Mirrored(_, _, _)
\* an _insert that sends the lower priorities right
BST_insert_rec_Mirrored(nodes, node, task) ==
    IF node = Nil
    THEN [nodes |-> Append(nodes, TaskNode(task)), node |-> Len(nodes) + 1]
    ELSE IF task.priority > nodes[node].task.priority
    THEN LET r == BST_insert_rec_Mirrored(nodes, nodes[node].left, task)
         IN  [nodes |-> [r.nodes EXCEPT ![node].left = r.node], node |-> node]
    ELSE LET r == BST_insert_rec_Mirrored(nodes, nodes[node].right, task)
         IN  [nodes |-> [r.nodes EXCEPT ![node].right = r.node], node |-> node]

RECURSIVE BST_insert_rec_Replaces(_, _, _)
\* an _insert that puts the task in place of one of equal priority
BST_insert_rec_Replaces(nodes, node, task) ==
    IF node = Nil
    THEN [nodes |-> Append(nodes, TaskNode(task)), node |-> Len(nodes) + 1]
    ELSE IF task.priority = nodes[node].task.priority
    THEN [nodes |-> [nodes EXCEPT ![node].task = task], node |-> node]
    ELSE IF task.priority < nodes[node].task.priority
    THEN LET r == BST_insert_rec_Replaces(nodes, nodes[node].left, task)
         IN  [nodes |-> [r.nodes EXCEPT ![node].left = r.node], node |-> node]
    ELSE LET r == BST_insert_rec_Replaces(nodes, nodes[node].right, task)
         IN  [nodes |-> [r.nodes EXCEPT ![node].right = r.node], node |-> node]

RECURSIVE BST_insert_rec(_, _, _)
\* _insert(node, task): the heap after it and the node it returns
BST_insert_rec(nodes, node, task) ==
    IF node = Nil
    THEN [nodes |-> Append(nodes, TaskNode(task)), node |-> Len(nodes) + 1]
    ELSE IF task.priority < nodes[node].task.priority
    THEN LET r == BST_insert_rec(nodes, nodes[node].left, task)
         IN  [nodes |-> [r.nodes EXCEPT ![node].left = r.node], node |-> node]
    ELSE LET r == BST_insert_rec(nodes, nodes[node].right, task)
         IN  [nodes |-> [r.nodes EXCEPT ![node].right = r.node], node |-> node]

BST_insert(self, task) ==
    LET r == BST_insert_rec(self.nodes, self.root, task)
    IN  Ret([root |-> r.node, nodes |-> r.nodes], None)

RECURSIVE BST_inorder_rec_RightFirst(_, _)
\* an _inorder that visits a node's right subtree before the node
BST_inorder_rec_RightFirst(nodes, node) ==
    IF node = Nil THEN <<>>
    ELSE BST_inorder_rec_RightFirst(nodes, nodes[node].left)
         \o BST_inorder_rec_RightFirst(nodes, nodes[node].right)
         \o <<nodes[node].task>>

RECURSIVE BST_inorder_rec(_, _)
\* what _inorder(node) appends to result
BST_inorder_rec(nodes, node) ==
    IF node = Nil THEN <<>>
    ELSE BST_inorder_rec(nodes, nodes[node].left)
         \o <<nodes[node].task>>
         \o BST_inorder_rec(nodes, nodes[node].right)

BST_inorder_traversal(self) == Ret(self, BST_inorder_rec(self.nodes, self.root))

RECURSIVE BST_search_rec_FirstOnly(_, _, _)
\* a _search that never descends to the right
BST_search_rec_FirstOnly(nodes, node, priority) ==
    IF node = Nil THEN None
    ELSE IF nodes[node].task.priority = priority THEN Some(nodes[node].task)
    ELSE IF priority < nodes[node].task.priority
    THEN BST_search_rec_FirstOnly(nodes, nodes[node].left, priority)
    ELSE None

RECURSIVE BST_search_rec_Deepest(_, _, _)
\* a _search that prefers a match further down to the one it stands on
BST_search_rec_Deepest(nodes, node, priority) ==
    IF node = Nil THEN None
    ELSE IF nodes[node].task.priority = priority
    THEN LET deeper ==
                 BST_search_rec_Deepest(nodes, nodes[node].right, priority)
         IN  IF deeper # None THEN deeper ELSE Some(nodes[node].task)
    ELSE IF priority < nodes[node].task.priority
    THEN BST_search_rec_Deepest(nodes, nodes[node].left, priority)
    ELSE BST_search_rec_Deepest(nodes, nodes[node].right, priority)

RECURSIVE BST_search_rec(_, _, _)
\* _search(node, priority)
BST_search_rec(nodes, node, priority) ==
    IF node = Nil THEN None
    ELSE IF nodes[node].task.priority = priority THEN Some(nodes[node].task)
    ELSE IF priority < nodes[node].task.priority
    THEN BST_search_rec(nodes, nodes[node].left, priority)
    ELSE BST_search_rec(nodes, nodes[node].right, priority)

BST_search(self, priority) ==
    Ret(self, BST_search_rec(self.nodes, self.root, priority))

----------------------------------------------------------------------------
(* data_structures/queue.py: Queue.  self = [items]                        *)

Queue_init == [items |-> <<>>]

\* queue.py: Task(task_id, title, priority)
Queue_Task(task_id, title, priority) ==
    [task_id |-> task_id, title |-> title, priority |-> priority]

Queue_enqueue(self, task) == Ret([self EXCEPT !.items = Append(@, task)], None)

Queue_is_empty(self) == Len(self.items) = 0

\* a dequeue that takes the item enqueued last
Queue_dequeue_Newest(self) ==
    IF ~Queue_is_empty(self)
    THEN Ret([self EXCEPT !.items = ButLast(@)],
             Some(self.items[Len(self.items)]))
    ELSE Ret(self, None)

Queue_dequeue(self) ==
    IF ~Queue_is_empty(self)
    THEN Ret([self EXCEPT !.items = Tail(@)], Some(Head(self.items)))
    ELSE Ret(self, None)

Queue_peek(self) ==
    IF ~Queue_is_empty(self)
    THEN Ret(self, Some(self.items[1]))
    ELSE Ret(self, None)

----------------------------------------------------------------------------
(* db/taskdb.py: TaskDatabase.  self = [rows, seq]: the rows of table      *)
(* tasks in rowid order, which is the order SELECT * FROM tasks returns    *)
(* them in, and the largest id ever handed out (AUTOINCREMENT never hands  *)
(* out an id twice).  A row is the record of its columns; main.py reads    *)
(* them by position: 0 id, 1 title, 2 description, 3 priority, 4 status,   *)
(* 5 due_date.  created_time is left out.                                  *)

\* CHECK(status IN ('To Do', 'In Progress', 'Done'))
ValidStatus == {"To Do", "In Progress", "Done"}

\* the constraints of table tasks refuse the values of task: title is NOT
\* NULL; the CHECK on status refuses a status outside ValidStatus, and lets
\* NULL through
Refused(task) ==
    \/ IsNone(task.title)
    \/ ~IsNone(task.status) /\ task.status \notin ValidStatus

Row(id, task) ==
    [id |-> id, title |-> task.title, description |-> task.description,
     priority |-> task.priority, status |-> task.status,
     due_date |-> task.due_date]

\* an add_task that stores nothing
TaskDatabase_add_task_Drops(self, task) ==
    IF Refused(task)
    THEN Raise(self, "IntegrityError")
    ELSE Ret(self, None)

TaskDatabase_add_task(self, task) ==
    IF Refused(task)
    THEN Raise(self, "IntegrityError")
    ELSE Ret([rows |-> Append(self.rows, Row(self.seq + 1, task)),
              seq |-> self.seq + 1], None)

TaskDatabase_get_all_tasks(self) == self.rows

TaskDatabase_get_task_by_id(self, task_id) ==
    LET hits == SelectSeq(self.rows, LAMBDA row : row.id = task_id)
    IN  IF hits = <<>> THEN None ELSE Some(hits[1])

TaskDatabase_update_task(self, task_id, updated_data) ==
    IF Refused(updated_data)
          /\ \E i \in 1..Len(self.rows) : self.rows[i].id = task_id
    THEN Raise(self, "IntegrityError")
    ELSE Ret([self EXCEPT !.rows =
                 [i \in 1..Len(@) |->
                     IF @[i].id = task_id THEN Row(task_id, updated_data)
                     ELSE @[i]]], None)

TaskDatabase_delete_task(self, task_id) ==
    Ret([self EXCEPT !.rows = SelectSeq(@, LAMBDA row : row.id # task_id)],
        None)

----------------------------------------------------------------------------
(* main.py: TaskManagerApp.                                                *)
(* self = [db, task_list, task_queue, task_bst, undo_redo, tree]; tree is  *)
(* the rows the Treeview shows.  A handler is a button's callback; when it *)
(* raises, Tk reports the exception and the application goes on.           *)

\* the dictionary load_tasks and delete_selected make of a row
TaskData(row) ==
    [id |-> row.id, title |-> row.title, description |-> row.description,
     priority |-> row.priority, status |-> row.status,
     due_date |-> row.due_date]

\* the dictionary load_tasks hands to the BST
TreeData(row) ==
    [id |-> row.id, title |-> row.title, priority |-> row.priority,
     status |-> IF Falsy(row.status) THEN "To Do" ELSE row.status,
     due_date |-> row.due_date]

\* the values of a Treeview row
TreeValues(task) ==
    [id |-> task.id, title |-> task.title, priority |-> task.priority,
     status |-> task.status, due_date |-> task.due_date]

RECURSIVE LoadLoop(_, _)
\* the loop `for task in tasks:` of load_tasks
LoadLoop(self, tasks) ==
    IF tasks = <<>> THEN self
    ELSE LET row == Head(tasks)
             task_data == TaskData(row)
         IN  LoadLoop(
                 [self EXCEPT
                    !.task_list =
                        TaskLinkedList_insert_task_by_priority(@, task_data).self,
                    !.task_queue = Queue_enqueue(@, task_data).self,
                    !.task_bst = BST_insert(@, TreeData(row)).self],
                 Tail(tasks))

\* a load_tasks that does not empty the structures first
TaskManagerApp_load_tasks_KeepsOld(self) ==
    LET loaded == LoadLoop(self, TaskDatabase_get_all_tasks(self.db))
        shown == LinkedList_to_list(loaded.task_list)
    IN  Ret([loaded EXCEPT !.tree = [i \in 1..Len(shown) |-> TreeValues(shown[i])]],
            None)

TaskManagerApp_load_tasks(self) ==
    LET cleared == [self EXCEPT !.task_list = LinkedList_clear(@).self,
                                !.task_queue = Queue_init,
                                !.task_bst = BST_init]
        loaded == LoadLoop(cleared, TaskDatabase_get_all_tasks(self.db))
        shown == LinkedList_to_list(loaded.task_list)
    IN  Ret([loaded EXCEPT !.tree = [i \in 1..Len(shown) |-> TreeValues(shown[i])]],
            None)

TaskManagerApp_init(db) ==
    TaskManagerApp_load_tasks(
        [db |-> db, task_list |-> LinkedList_init, task_queue |-> Queue_init,
         task_bst |-> BST_init,
         undo_redo |-> UndoRedoManager_init(DefaultMaxHistory),
         tree |-> <<>>]).self

\* add_task_popup.save, task being the dictionary read from the form
TaskManagerApp_save(self, task) ==
    LET put == TaskDatabase_add_task(self.db, task)
    IN  IF put.raised # "no" THEN Raise(self, put.raised)
        ELSE TaskManagerApp_load_tasks(
                 [self EXCEPT
                    !.db = put.self,
                    !.undo_redo =
                        UndoRedoManager_execute_action(
                            @, TaskAction("CREATE", task, None)).self])

\* delete_selected, selected being the number of the Treeview row selected
\* (0: none)
TaskManagerApp_delete_selected(self, selected) ==
    IF selected = 0 THEN Ret(self, None)
    ELSE LET task_id == self.tree[selected].id
             task_data == TaskDatabase_get_task_by_id(self.db, task_id)
         IN  IF task_data = None THEN Ret(self, None)
             ELSE TaskManagerApp_load_tasks(
                      [self EXCEPT
                         !.db = TaskDatabase_delete_task(@, task_id).self,
                         !.undo_redo =
                             UndoRedoManager_execute_action(
                                 @, TaskAction("DELETE", TaskData(task_data[1]),
                                               None)).self])

\* mark_task_done, selected being the number of the Treeview row in focus
TaskManagerApp_mark_task_done(self, selected) ==
    IF selected = 0 THEN Ret(self, None)
    ELSE LET task_id == self.tree[selected].id
             task == TaskDatabase_get_task_by_id(self.db, task_id)
         IN  IF task = None THEN Ret(self, None)
             ELSE LET updated_task ==
                          [title |-> task[1].title,
                           description |-> IF Falsy(task[1].description)
                                           THEN "" ELSE task[1].description,
                           priority |-> task[1].priority,
                           status |-> "Done",
                           due_date |-> task[1].due_date]
                  IN  TaskManagerApp_load_tasks(
                          [self EXCEPT
                             !.db = TaskDatabase_update_task(@, task_id,
                                                             updated_task).self])

\* undo: the manager has moved the action before the store is touched, so
\* it stays moved when the store access raises
TaskManagerApp_undo(self) ==
    LET undone == UndoRedoManager_undo(self.undo_redo)
        moved == [self EXCEPT !.undo_redo = undone.self]
    IN  IF undone.ret = None THEN Ret(moved, None)
        ELSE LET action == undone.ret[1]
             IN  IF action.action_type = "CREATE"
                 THEN LET all == TaskDatabase_get_all_tasks(self.db)
                      IN  IF all = <<>>
                          THEN Raise(moved, "IndexError")
                          ELSE TaskManagerApp_load_tasks(
                                   [moved EXCEPT
                                      !.db = TaskDatabase_delete_task(
                                                 @, all[Len(all)].id).self])
                 ELSE IF action.action_type = "DELETE"
                 THEN LET put == TaskDatabase_add_task(self.db, action.task_data)
                      IN  IF put.raised # "no" THEN Raise(moved, put.raised)
                          ELSE TaskManagerApp_load_tasks(
                                   [moved EXCEPT !.db = put.self])
                 ELSE IF action.action_type = "UPDATE"
                 THEN LET put == TaskDatabase_update_task(
                                     self.db, action.task_data.id,
                                     action.previous_data[1])
                      IN  IF put.raised # "no" THEN Raise(moved, put.raised)
                          ELSE TaskManagerApp_load_tasks(
                                   [moved EXCEPT !.db = put.self])
                 ELSE TaskManagerApp_load_tasks(moved)

TaskManagerApp_redo(self) ==
    LET redone == UndoRedoManager_redo(self.undo_redo)
        moved == [self EXCEPT !.undo_redo = redone.self]
    IN  IF redone.ret = None THEN Ret(moved, None)
        ELSE LET action == redone.ret[1]
             IN  IF action.action_type = "CREATE"
                 THEN LET put == TaskDatabase_add_task(self.db, action.task_data)
                      IN  IF put.raised # "no" THEN Raise(moved, put.raised)
                          ELSE TaskManagerApp_load_tasks(
                                   [moved EXCEPT !.db = put.self])
                 ELSE IF action.action_type = "DELETE"
                 THEN TaskManagerApp_load_tasks(
                          [moved EXCEPT
                             !.db = TaskDatabase_delete_task(
                                        @, action.task_data.id).self])
                 ELSE IF action.action_type = "UPDATE"
                 THEN LET put == TaskDatabase_update_task(
                                     self.db, action.task_data.id,
                                     action.task_data)
                      IN  IF put.raised # "no" THEN Raise(moved, put.raised)
                          ELSE TaskManagerApp_load_tasks(
                                   [moved EXCEPT !.db = put.self])
                 ELSE TaskManagerApp_load_tasks(moved)

----------------------------------------------------------------------------
(* The log of calls. *)

Call(op, arg, r) == [op |-> op, arg |-> arg, ret |-> r.ret, raised |-> r.raised]

\* the k-th call counted from the most recent one (Ago(0) is the last call)
Ago(k) == hist[Len(hist) - k]

----------------------------------------------------------------------------
(* Specification SpecStack: one Stack, constructed with any max_size in    *)
(* 0..MaxCap, and any sequence of calls on it.                             *)

\* the items pushed in the Stack specification
StackItems == {"a", "b", "c"}

StackIdle == stack = Stack_init(DefaultMaxSize)
UrmIdle == undo_redo = UndoRedoManager_init(DefaultMaxHistory)
ListIdle == task_list = LinkedList_init
BstIdle == bst = BST_init
QueueIdle == queue = Queue_init
EmptyDb == [rows |-> <<>>, seq |-> 0]
AppIdle ==
    /\ app = TaskManagerApp_init(EmptyDb)
    /\ added = UndoRedoManager_init(DefaultMaxHistory)

InitStack ==
    /\ hist = <<>>
    /\ QueueIdle
    /\ \E k \in 0..MaxCap : stack = Stack_init(k)
    /\ UrmIdle
    /\ ListIdle
    /\ BstIdle
    /\ AppIdle

StackCall(op, arg, r) ==
    /\ Len(hist) < MaxStackOps
    /\ stack' = r.self
    /\ hist' = Append(hist, Call(op, arg, r))
    /\ UNCHANGED <<undo_redo, task_list, bst, app, added, queue>>

Push == \E item \in StackItems : StackCall("push", item, Stack_push(stack, item))

Pop == StackCall("pop", None, Stack_pop(stack))

Peek == StackCall("peek", None, Stack_peek(stack))

Clear == StackCall("clear", None, Stack_clear(stack))

NextStack == Push \/ Pop \/ Peek \/ Clear

SpecStack == InitStack /\ [][NextStack]_vars

----------------------------------------------------------------------------
(* Specification SpecStackCalls: one Stack, constructed with any max_size  *)
(* in 0..MaxCap, and any sequence of calls on it.  hist holds the last     *)
(* call only.                                                              *)

StackStep(op, arg, r) ==
    /\ stack.operation_count < MaxOperations
    /\ stack' = r.self
    /\ hist' = <<Call(op, arg, r)>>
    /\ UNCHANGED <<undo_redo, task_list, bst, app, added, queue>>

StackPush ==
    \E item \in StackItems : StackStep("push", item, Stack_push(stack, item))

StackPop == StackStep("pop", None, Stack_pop(stack))

StackPeek == StackStep("peek", None, Stack_peek(stack))

StackClear == StackStep("clear", None, Stack_clear(stack))

StackSearch ==
    \E item \in StackItems \cup {"z"} :
        StackStep("search", item, Stack_search(stack, item))

StackGetRecentItems ==
    \E count \in -1..(MaxCap + 1) :
        StackStep("get_recent_items", count,
                  Stack_get_recent_items(stack, count))

NextStackCalls ==
    \/ StackPush \/ StackPop \/ StackPeek \/ StackClear
    \/ StackSearch \/ StackGetRecentItems

SpecStackCalls == InitStack /\ [][NextStackCalls]_vars

----------------------------------------------------------------------------
(* Specification SpecUrm: one UndoRedoManager, constructed with any        *)
(* max_history in 0..MaxHistoryCap, and any sequence of calls on it.       *)

\* the records and actions handed to execute_action
UrmTask(id, title) == [id |-> id, title |-> title]

UrmActions ==
    { TaskAction("CREATE", UrmTask(1, "t1"), None),
      TaskAction("UPDATE", UrmTask(1, "t2"), Some(UrmTask(1, "t1"))),
      TaskAction("DELETE", UrmTask(1, "t2"), None) }

InitUrm ==
    /\ hist = <<>>
    /\ QueueIdle
    /\ StackIdle
    /\ \E k \in 0..MaxHistoryCap : undo_redo = UndoRedoManager_init(k)
    /\ ListIdle
    /\ BstIdle
    /\ AppIdle

UrmCall(op, arg, r) ==
    /\ Len(hist) < MaxUrmOps
    /\ undo_redo' = r.self
    /\ hist' = Append(hist, Call(op, arg, r))
    /\ UNCHANGED <<stack, task_list, bst, app, added, queue>>

ExecuteAction ==
    \E action \in UrmActions :
        UrmCall("execute_action", Some(action),
                UndoRedoManager_execute_action(undo_redo, action))

Undo == UrmCall("undo", None, UndoRedoManager_undo(undo_redo))

Redo == UrmCall("redo", None, UndoRedoManager_redo(undo_redo))

ClearHistory ==
    UrmCall("clear_history", None, UndoRedoManager_clear_history(undo_redo))

NextUrm == ExecuteAction \/ Undo \/ Redo \/ ClearHistory

SpecUrm == InitUrm /\ [][NextUrm]_vars

----------------------------------------------------------------------------
(* Specification SpecUrmCalls: one UndoRedoManager, constructed with any   *)
(* max_history in 0..MaxHistoryCap, and any sequence of calls on it.  hist *)
(* holds the last call only.                                               *)

UrmStep(op, arg, r) ==
    /\ undo_redo.undo_stack.operation_count
          + undo_redo.redo_stack.operation_count < MaxUrmOperations
    /\ undo_redo' = r.self
    /\ hist' = <<Call(op, arg, r)>>
    /\ UNCHANGED <<stack, task_list, bst, app, added, queue>>

UrmExecuteAction ==
    \E action \in UrmActions :
        UrmStep("execute_action", Some(action),
                UndoRedoManager_execute_action(undo_redo, action))

UrmUndo == UrmStep("undo", None, UndoRedoManager_undo(undo_redo))

UrmRedo == UrmStep("redo", None, UndoRedoManager_redo(undo_redo))

UrmClearHistory ==
    UrmStep("clear_history", None, UndoRedoManager_clear_history(undo_redo))

UrmCanUndo ==
    UrmStep("can_undo", None,
            Ret(undo_redo, UndoRedoManager_can_undo(undo_redo)))

UrmCanRedo ==
    UrmStep("can_redo", None,
            Ret(undo_redo, UndoRedoManager_can_redo(undo_redo)))

NextUrmCalls ==
    \/ UrmExecuteAction \/ UrmUndo \/ UrmRedo \/ UrmClearHistory
    \/ UrmCanUndo \/ UrmCanRedo

SpecUrmCalls == InitUrm /\ [][NextUrmCalls]_vars

----------------------------------------------------------------------------
(* The task records put into the lists: the priorities 3, 5, 2 and the due *)
(* dates of the test scenarios, with a tie in each.                        *)

Dec01 == <<"2", "0", "2", "4", "-", "1", "2", "-", "0", "1">>
Dec15 == <<"2", "0", "2", "4", "-", "1", "2", "-", "1", "5">>
Dec31 == <<"2", "0", "2", "4", "-", "1", "2", "-", "3", "1">>

Task(id, title, priority, status, due_date) ==
    [id |-> id, title |-> title, priority |-> priority, status |-> status,
     due_date |-> due_date]

ListTasks ==
    { Task(1, "Task A", 3, "todo", Dec31),
      Task(2, "Task B", 5, "completed", Dec15),
      Task(3, "Task C", 2, "in_progress", Dec01),
      Task(4, "Task D", 3, "todo", Dec15) }

----------------------------------------------------------------------------
(* Specifications SpecPriority and SpecDueDate: a TaskLinkedList, empty at *)
(* first, on which only insert_task_by_priority (only                      *)
(* insert_task_by_due_date) is called.  hist is the whole call sequence.   *)

InitList ==
    /\ hist = <<>>
    /\ QueueIdle
    /\ StackIdle
    /\ UrmIdle
    /\ task_list = LinkedList_init
    /\ BstIdle
    /\ AppIdle

ListCall(op, arg, r) ==
    /\ task_list' = r.self
    /\ hist' = Append(hist, Call(op, arg, r))
    /\ UNCHANGED <<stack, undo_redo, bst, app, added, queue>>

InsertTaskByPriority ==
    /\ task_list.size < MaxSorted
    /\ \E task \in ListTasks :
           ListCall("insert_task_by_priority", task,
                    TaskLinkedList_insert_task_by_priority(task_list, task))

InsertTaskByDueDate ==
    /\ task_list.size < MaxSorted
    /\ \E task \in ListTasks :
           ListCall("insert_task_by_due_date", task,
                    TaskLinkedList_insert_task_by_due_date(task_list, task))

SpecPriority == InitList /\ [][InsertTaskByPriority]_vars

SpecDueDate == InitList /\ [][InsertTaskByDueDate]_vars

----------------------------------------------------------------------------
(* Specification SpecList: a TaskLinkedList, empty at first, and any       *)
(* sequence of calls of its mutators.  hist holds the last call only.      *)

ListStep(op, arg, r) ==
    /\ task_list' = r.self
    /\ hist' = <<Call(op, arg, r)>>
    /\ UNCHANGED <<stack, undo_redo, bst, app, added, queue>>

InsertAtHead ==
    /\ task_list.size < MaxNodes
    /\ \E data \in ListTasks :
           ListStep("insert_at_head", data,
                    LinkedList_insert_at_head(task_list, data))

InsertAtTail ==
    /\ task_list.size < MaxNodes
    /\ \E data \in ListTasks :
           ListStep("insert_at_tail", data,
                    LinkedList_insert_at_tail(task_list, data))

InsertAtPosition ==
    /\ task_list.size < MaxNodes
    /\ \E position \in -1..(task_list.size + 1), data \in ListTasks :
           ListStep("insert_at_position", <<position, data>>,
                    LinkedList_insert_at_position(task_list, position, data))

GetAtIndex ==
    \E index \in -1..task_list.size :
        ListStep("get_at_index", index,
                 LinkedList_get_at_index(task_list, index))

UpdateAtIndex ==
    \E index \in -1..task_list.size,
       new_data \in {task \in ListTasks : task.id <= 2} :
        ListStep("update_at_index", <<index, new_data>>,
                 LinkedList_update_at_index(task_list, index, new_data))

GetTasksByStatus ==
    \E status \in {"todo", "completed", "cancelled"} :
        ListStep("get_tasks_by_status", status,
                 TaskLinkedList_get_tasks_by_status(task_list, status))

GetHighPriorityTasks ==
    \E min_priority \in {3, 5, 6} :
        ListStep("get_high_priority_tasks", min_priority,
                 TaskLinkedList_get_high_priority_tasks(task_list, min_priority))

DeleteAtHead ==
    ListStep("delete_at_head", None, LinkedList_delete_at_head(task_list))

DeleteAtTail ==
    ListStep("delete_at_tail", None, LinkedList_delete_at_tail(task_list))

DeleteByValue ==
    \E value \in ListTasks :
        ListStep("delete_by_value", value,
                 LinkedList_delete_by_value(task_list, value))

DeleteTaskById ==
    \E task_id \in {Get(t, "id", None) : t \in ListTasks} \cup {99} :
        ListStep("delete_task_by_id", task_id,
                 TaskLinkedList_delete_task_by_id(task_list, task_id))

InsertSortedByPriority ==
    /\ task_list.size < MaxNodes
    /\ \E task \in ListTasks :
           ListStep("insert_task_by_priority", task,
                    TaskLinkedList_insert_task_by_priority(task_list, task))

InsertSortedByDueDate ==
    /\ task_list.size < MaxNodes
    /\ \E task \in ListTasks :
           ListStep("insert_task_by_due_date", task,
                    TaskLinkedList_insert_task_by_due_date(task_list, task))

ReverseList == ListStep("reverse", None, LinkedList_reverse(task_list))

ClearList == ListStep("clear", None, LinkedList_clear(task_list))

NextList ==
    \/ InsertAtHead \/ InsertAtTail \/ InsertAtPosition
    \/ GetAtIndex \/ UpdateAtIndex
    \/ GetTasksByStatus \/ GetHighPriorityTasks
    \/ DeleteAtHead \/ DeleteAtTail \/ DeleteByValue \/ DeleteTaskById
    \/ InsertSortedByPriority \/ InsertSortedByDueDate
    \/ ReverseList \/ ClearList

SpecList == InitList /\ [][NextList]_vars

----------------------------------------------------------------------------
(* Specification SpecTaskList: a TaskLinkedList, empty at first, kept by   *)
(* insert_task_by_priority, update_task, mark_task_complete and            *)
(* delete_task_by_id.  hist holds the last call only.                      *)

\* what datetime.now().strftime('%Y-%m-%d %H:%M:%S') gives at two moments
Clock == {"2024-12-01 09:00:00", "2024-12-01 09:00:01"}

\* the updates handed to update_task
Updates ==
    { [priority |-> 5],
      [title |-> "Task Z", status |-> "in_progress"] }

\* the longest list SpecTaskList builds
MaxTasks == 2

InsertTask ==
    /\ task_list.size < MaxTasks
    /\ \E task \in ListTasks :
           ListStep("insert_task_by_priority", task,
                    TaskLinkedList_insert_task_by_priority(task_list, task))

\* insert_task_by_priority is handed a dictionary that a Node of the list
\* holds already
InsertTaskAgain ==
    /\ task_list.size < MaxTasks
    /\ \E held \in DOMAIN task_list.nodes :
           LET task == task_list.nodes[held].data
               r == TaskLinkedList_insert_task_by_priority(task_list, task)
           IN  ListStep("insert_task_by_priority", task,
                        [r EXCEPT !.self = Holding(@, NewNode(task_list),
                                                   task_list.nodes[held].dict)])

UpdateTask ==
    \E task_id \in {1, 99}, updates \in Updates, now \in Clock :
        ListStep("update_task", <<task_id, updates>>,
                 TaskLinkedList_update_task(task_list, task_id, updates, now))

MarkTaskComplete ==
    \E task_id \in {1, 99}, now \in Clock :
        ListStep("mark_task_complete", task_id,
                 TaskLinkedList_mark_task_complete(task_list, task_id, now))

DeleteTask ==
    \E task_id \in {1, 2, 99} :
        ListStep("delete_task_by_id", task_id,
                 TaskLinkedList_delete_task_by_id(task_list, task_id))

NextTaskList ==
    InsertTask \/ InsertTaskAgain \/ UpdateTask \/ MarkTaskComplete \/ DeleteTask

SpecTaskList == InitList /\ [][NextTaskList]_vars

----------------------------------------------------------------------------
(* Specification SpecQueue: one Queue, empty at first, and any sequence of *)
(* calls on it.  hist is the whole call sequence.                          *)

\* the number of calls made on the Queue
MaxQueueOps == 6

\* the tasks enqueued
QueueTasks ==
    { Queue_Task(1, "Test 1", 3),
      Queue_Task(2, "Test 2", 1),
      Queue_Task(3, "Test 3", 3) }

InitQueue ==
    /\ hist = <<>>
    /\ queue = Queue_init
    /\ StackIdle
    /\ UrmIdle
    /\ ListIdle
    /\ BstIdle
    /\ AppIdle

QueueCall(op, arg, r) ==
    /\ Len(hist) < MaxQueueOps
    /\ queue' = r.self
    /\ hist' = Append(hist, Call(op, arg, r))
    /\ UNCHANGED <<stack, undo_redo, task_list, bst, app, added>>

QueueEnqueue ==
    \E task \in QueueTasks :
        QueueCall("enqueue", task, Queue_enqueue(queue, task))

QueueDequeue == QueueCall("dequeue", None, Queue_dequeue(queue))

QueuePeek == QueueCall("peek", None, Queue_peek(queue))

QueueIsEmpty ==
    QueueCall("is_empty", None, Ret(queue, Queue_is_empty(queue)))

NextQueue == QueueEnqueue \/ QueueDequeue \/ QueuePeek \/ QueueIsEmpty

SpecQueue == InitQueue /\ [][NextQueue]_vars

----------------------------------------------------------------------------
(* Specification SpecBst: a BST, empty at first, and any sequence of       *)
(* insert calls.  hist is the whole call sequence.                         *)

BstTasks == ListTasks \cup { Task(5, "Task E", 4, "todo", Dec01) }

InitBst ==
    /\ hist = <<>>
    /\ QueueIdle
    /\ StackIdle
    /\ UrmIdle
    /\ ListIdle
    /\ bst = BST_init
    /\ AppIdle

Insert ==
    /\ Len(bst.nodes) < MaxTreeNodes
    /\ \E task \in BstTasks :
           LET r == BST_insert(bst, task)
           IN  /\ bst' = r.self
               /\ hist' = Append(hist, Call("insert", task, r))
               /\ UNCHANGED <<stack, undo_redo, task_list, app, added, queue>>

SpecBst == InitBst /\ [][Insert]_vars

----------------------------------------------------------------------------
(* Specification SpecApp: a TaskManagerApp opened on a store that is empty *)
(* or holds one row, and any sequence of its handlers.  hist holds the     *)
(* last call, with the TaskAction the manager handed out (action) and the  *)
(* store's rows before and after the call; when the last calls were        *)
(* delete_selected; undo or delete_selected; undo; redo, it holds these.   *)
(*                                                                         *)
(* added mirrors app.undo_redo: where that holds a CREATE action, added    *)
(* holds the id of the row the store added when the action was executed or *)
(* last redone; when undoing a DELETE puts a deleted record back under a   *)
(* new id, that id replaces the old one.  For a DELETE or UPDATE action it *)
(* holds Nil.                                                              *)

\* what the user types into the Add Task form; the second has a status the
\* table's CHECK refuses
FormTasks ==
    { [title |-> "Task A", description |-> "", priority |-> 3,
       status |-> "To Do", due_date |-> Dec31],
      [title |-> "Task B", description |-> "", priority |-> 5,
       status |-> "todo", due_date |-> Dec15] }

InitialDbs ==
    { EmptyDb,
      [rows |-> <<Row(1, [title |-> "Task C", description |-> "",
                          priority |-> 2, status |-> "In Progress",
                          due_date |-> Dec01])>>,
       seq |-> 1] }

InitApp ==
    /\ hist = <<>>
    /\ QueueIdle
    /\ StackIdle
    /\ UrmIdle
    /\ ListIdle
    /\ BstIdle
    /\ \E db \in InitialDbs : app = TaskManagerApp_init(db)
    /\ added = UndoRedoManager_init(DefaultMaxHistory)

\* added with every old replaced by new
Renamed(manager, old, new) ==
    LET Swap(items) == [i \in 1..Len(items) |->
                           IF items[i] = old THEN new ELSE items[i]]
    IN  [manager EXCEPT !.undo_stack.items = Swap(@),
                        !.redo_stack.items = Swap(@)]

\* added with the top of its undo stack replaced by id
Retopped(manager, id) ==
    [manager EXCEPT !.undo_stack.items = Append(ButLast(@), id)]

\* hist after a call: the call, after the calls it continues when it is the
\* undo() or the redo() of a delete_selected; undo(); redo() sequence
Continued(call) ==
    IF \/ /\ Len(hist) = 1 /\ hist[1].op = "delete_selected"
          /\ hist[1].action # None /\ call.op = "undo"
       \/ /\ Len(hist) = 2 /\ hist[1].op = "delete_selected"
          /\ call.op = "redo"
    THEN Append(hist, call)
    ELSE <<call>>

AppCall(op, arg, action, r) ==
    /\ r.self.db.seq <= MaxId
    /\ app' = r.self
    /\ hist' = Continued([op |-> op, arg |-> arg, action |-> action,
                          ret |-> r.ret, raised |-> r.raised,
                          before |-> app.db.rows,
                          after |-> r.self.db.rows])
    /\ UNCHANGED <<stack, undo_redo, task_list, bst, queue>>

SaveTask ==
    \E task \in FormTasks :
        LET r == TaskManagerApp_save(app, task)
        IN  /\ AppCall("save", task,
                       IF r.raised = "no"
                       THEN Some(TaskAction("CREATE", task, None)) ELSE None,
                       r)
            /\ added' = IF r.raised = "no"
                        THEN UndoRedoManager_execute_action(
                                 added, r.self.db.seq).self
                        ELSE added

DeleteSelected ==
    \E selected \in 0..Len(app.tree) :
        LET r == TaskManagerApp_delete_selected(app, selected)
            executed == r.self.undo_redo # app.undo_redo
        IN  /\ AppCall("delete_selected", selected,
                       IF executed
                       THEN Stack_peek(r.self.undo_redo.undo_stack).ret
                       ELSE None,
                       r)
            /\ added' = IF executed
                        THEN UndoRedoManager_execute_action(added, Nil).self
                        ELSE added

MarkTaskDone ==
    \E selected \in 0..Len(app.tree) :
        /\ AppCall("mark_task_done", selected, None,
                   TaskManagerApp_mark_task_done(app, selected))
        /\ UNCHANGED added

UndoHandler ==
    LET r == TaskManagerApp_undo(app)
        action == UndoRedoManager_undo(app.undo_redo).ret
        moved == UndoRedoManager_undo(added).self
    IN  /\ AppCall("undo", None, action, r)
        /\ added' = IF action # None /\ action[1].action_type = "DELETE"
                       /\ r.raised = "no"
                    THEN Renamed(moved, action[1].task_data.id, r.self.db.seq)
                    ELSE moved

RedoHandler ==
    LET r == TaskManagerApp_redo(app)
        action == UndoRedoManager_redo(app.undo_redo).ret
        moved == UndoRedoManager_redo(added).self
    IN  /\ AppCall("redo", None, action, r)
        /\ added' = IF action # None /\ action[1].action_type = "CREATE"
                       /\ r.raised = "no"
                    THEN Retopped(moved, r.self.db.seq)
                    ELSE moved

NextApp ==
    SaveTask \/ DeleteSelected \/ MarkTaskDone \/ UndoHandler \/ RedoHandler

SpecApp == InitApp /\ [][NextApp]_vars

----------------------------------------------------------------------------
(* Properties of the UndoRedoManager, under SpecUrm. *)

\* the last three calls were execute_action(A), undo(), redo(), and
\* execute_action returned
RoundTripDone ==
    /\ Len(hist) >= 3
    /\ Ago(2).op = "execute_action" /\ Ago(2).raised = "no"
    /\ Ago(1).op = "undo"
    /\ Ago(0).op = "redo"

\* C1: after execute_action(A); undo(); redo(), from any state of the manager,
\* can_undo() is true, can_redo() is false, and redo() returned A, the action
\* that undo() returned.
C1_UndoRedoRoundTrip ==
    RoundTripDone =>
        /\ Ago(1).raised = "no" /\ Ago(0).raised = "no"
        /\ UndoRedoManager_can_undo(undo_redo)
        /\ ~UndoRedoManager_can_redo(undo_redo)
        /\ Ago(0).ret = Ago(2).arg
        /\ Ago(1).ret = Ago(2).arg

\* the round trip followed an execute_action and an undo, on a manager with
\* max_history 1
C1_Witness ==
    /\ RoundTripDone
    /\ Len(hist) = 5
    /\ hist[1].op = "execute_action" /\ hist[2].op = "undo"
    /\ undo_redo.max_history = 1

\* C2: right after execute_action(action) the redo stack is empty, can_redo()
\* is false, and action is the top of the undo stack, whatever calls came
\* before it.
C2_BranchCut ==
    (Len(hist) >= 1 /\ Ago(0).op = "execute_action" /\ Ago(0).raised = "no") =>
        /\ undo_redo.redo_stack.items = <<>>
        /\ ~UndoRedoManager_can_redo(undo_redo)
        /\ Stack_peek(undo_redo.undo_stack).ret = Ago(0).arg

\* execute_action came right after two undo() calls that each returned an
\* action: the redo stack held two actions when it was called
C2_Witness ==
    /\ Len(hist) >= 3
    /\ Ago(0).op = "execute_action" /\ Ago(0).raised = "no"
    /\ Ago(1).op = "undo" /\ Ago(1).ret # None
    /\ Ago(2).op = "undo" /\ Ago(2).ret # None

----------------------------------------------------------------------------
(* Properties of the Stack, under SpecStack. *)

\* every call so far was a push
OnlyPushes == \A i \in 1..Len(hist) : hist[i].op = "push"

\* the items pushed so far, in push order (when every call was a push)
Pushed == [i \in 1..Len(hist) |-> hist[i].arg]

\* C3: on a Stack with max_size k >= 1, after n pushes and nothing else the
\* stack holds exactly the min(n, k) most recently pushed items in push
\* order; a push on a full stack removed exactly the bottom item, and size()
\* stays k.
C3_CapacityEviction ==
    (stack.max_size >= 1 /\ OnlyPushes) =>
        LET n == Len(hist)
            k == stack.max_size
            before == LastN(ButLast(Pushed), Min(n - 1, k))
        IN  /\ \A i \in 1..n : hist[i].raised = "no" /\ hist[i].ret = TRUE
            /\ Stack_size(stack) = Min(n, k)
            /\ stack.items = LastN(Pushed, Min(n, k))
            /\ n > k => /\ Len(before) = k
                        /\ stack.items = Append(Tail(before), Pushed[n])

\* more items were pushed than a stack of max_size >= 2 holds
C3_Witness ==
    /\ OnlyPushes
    /\ stack.max_size >= 2
    /\ Len(hist) >= stack.max_size + 2

----------------------------------------------------------------------------
(* Properties of the TaskLinkedList. *)

\* to_list() of the list, a field of each record
Column(key, default) ==
    LET l == LinkedList_to_list(task_list)
    IN  [i \in 1..Len(l) |-> Get(l[i], key, default)]

\* C4: after each insert_task_by_priority call on a list that was empty at
\* first and saw no other call, to_list() is in non-increasing priority
\* order.  (Under SpecPriority.)
C4_SortedByPriority ==
    LET p == Column("priority", 0)
    IN  \A i, j \in 1..Len(p) : i < j => p[i] >= p[j]

\* priorities 3, 5, 2, 3 were inserted in that order and read back 5, 3, 3, 2
C4_Witness ==
    /\ [i \in 1..Len(hist) |-> hist[i].arg.priority] = <<3, 5, 2, 3>>
    /\ Column("priority", 0) = <<5, 3, 3, 2>>

\* C5: after each insert_task_by_due_date call on a list that was empty at
\* first and saw no other call, to_list() is in non-decreasing due_date
\* order, the dates compared as strings.  (Under SpecDueDate.)
C5_SortedByDueDate ==
    LET d == Column("due_date", DefaultDueDate)
    IN  \A i, j \in 1..Len(d) : i < j => Str_le(d[i], d[j])

\* the due dates 2024-12-31, 2024-12-15, 2024-12-01 were inserted in that
\* order and read back 2024-12-01, 2024-12-15, 2024-12-31
C5_Witness ==
    /\ [i \in 1..Len(hist) |-> hist[i].arg.due_date] = <<Dec31, Dec15, Dec01>>
    /\ Column("due_date", DefaultDueDate) = <<Dec01, Dec15, Dec31>>

\* C8: after any sequence of the mutators, size is the number of nodes
\* reachable from head, tail is the node reached from head by exactly
\* size - 1 next steps and tail.next is None, and tail is None iff head is.
\* (Under SpecList.)
C8_ListStructure ==
    LET chain == ChainFrom(task_list.nodes, task_list.head, {})
    IN  /\ task_list.size = Len(chain)
        /\ (task_list.tail = Nil) <=> (task_list.head = Nil)
        /\ task_list.head # Nil =>
              /\ task_list.nodes[chain[Len(chain)]].next = Nil
              /\ task_list.tail \in DOMAIN task_list.nodes
              /\ Advance(task_list.nodes, task_list.head, task_list.size - 1)
                     = task_list.tail
              /\ task_list.nodes[task_list.tail].next = Nil

\* the last node of a three-node list was removed by delete_task_by_id: the
\* ids of the list are distinct and its largest position held the id
C8_Witness ==
    /\ hist # <<>>
    /\ Ago(0).op = "delete_task_by_id"
    /\ Ago(0).ret = Some(Task(3, "Task C", 2, "in_progress", Dec01))
    /\ Column("id", None) = <<2, 1>>

----------------------------------------------------------------------------
(* Properties of the BST, under SpecBst. *)

\* the priorities searched for: those of the records and two of none
SearchKeys == 0..6

\* the priorities of the records inserted so far, in insertion order
InsertedPriorities == [i \in 1..Len(hist) |-> hist[i].arg.priority]

\* the priorities of inorder_traversal()
InorderPriorities ==
    LET t == BST_inorder_traversal(bst).ret
    IN  [i \in 1..Len(t) |-> t[i].priority]

\* C6: after any sequence of inserts, search(p) returns a record of priority
\* p if a record of priority p was inserted, and None if none was.
C6_SearchFindsInserted ==
    \A p \in SearchKeys :
        LET found == BST_search(bst, p).ret
        IN  IF \E i \in 1..Len(hist) : InsertedPriorities[i] = p
            THEN found # None /\ found[1].priority = p
            ELSE found = None

\* priorities 3, 5, 2 were inserted (and one more record): search(2) returns
\* the record of priority 2, the root's left child, and search(0) returns None
C6_Witness ==
    /\ Len(hist) = 4
    /\ SubSeq(InsertedPriorities, 1, 3) = <<3, 5, 2>>
    /\ BST_search(bst, 2).ret = Some(Task(3, "Task C", 2, "in_progress", Dec01))
    /\ BST_search(bst, 0).ret = None

\* C7: after any sequence of inserts, in any order and with equal priorities,
\* inorder_traversal() yields the priorities in non-decreasing order.
C7_InorderSorted ==
    \A i, j \in 1..Len(InorderPriorities) :
        i < j => InorderPriorities[i] <= InorderPriorities[j]

\* priorities 5, 3, 3, 2 were inserted in that order, decreasing and with a
\* tie, and are traversed as 2, 3, 3, 5
C7_Witness ==
    /\ InsertedPriorities = <<5, 3, 3, 2>>
    /\ InorderPriorities = <<2, 3, 3, 5>>

----------------------------------------------------------------------------
(* Properties of the TaskManagerApp, under SpecApp. *)

\* the ids of rows
Ids(rows) == {rows[i].id : i \in 1..Len(rows)}

\* rows without the row of the given id
Without(rows, id) == SelectSeq(rows, LAMBDA row : row.id # id)

\* the number of rows that carry the data of task (all columns but the id)
Carrying(rows, task) ==
    Len(SelectSeq(rows, LAMBDA row :
            /\ row.title = task.title
            /\ row.description = task.description
            /\ row.priority = task.priority
            /\ row.status = task.status
            /\ row.due_date = task.due_date))

\* C9: undoing a CREATE action deletes from the store exactly the record that
\* this CREATE added and no other record, whatever add, delete, undo and redo
\* came before.  (The record a CREATE added is the row added when the action
\* was executed or last redone, under the id it has now: see added.)
C9_UndoCreateDeletesItsRecord ==
    (/\ hist # <<>>
     /\ Ago(0).op = "undo"
     /\ Ago(0).action # None
     /\ Ago(0).action[1].action_type = "CREATE") =>
        LET created == Stack_peek(added.redo_stack).ret[1]
        IN  /\ Ago(0).raised = "no"
            /\ created \in Ids(Ago(0).before)
            /\ Ago(0).after = Without(Ago(0).before, created)

\* C10: after a task t is deleted, the DELETE undone and then redone, the
\* store has as many records as right after the delete, and no record
\* carrying t's data that it did not have then.
C10_RedoDeleteDeletes ==
    (Len(hist) = 3 /\ Ago(2).op = "delete_selected" /\ Ago(1).op = "undo"
     /\ Ago(0).op = "redo") =>
        LET t == Ago(2).action[1].task_data
        IN  /\ Len(app.db.rows) = Len(Ago(2).after)
            /\ Carrying(app.db.rows, t) = Carrying(Ago(2).after, t)

----------------------------------------------------------------------------
(* Properties of the structures the application rebuilds, under SpecApp. *)

\* record a carries the title, priority, status and due date of record b
SameTask(a, b) ==
    /\ a.title = b.title /\ a.priority = b.priority
    /\ a.status = b.status /\ a.due_date = b.due_date

\* the last two handlers run were delete_selected, which deleted a task, and
\* undo
DeleteUndone ==
    /\ Len(hist) = 2
    /\ hist[1].op = "delete_selected" /\ hist[1].action # None
    /\ hist[2].op = "undo"

\* C11: after a task is deleted and undo() is invoked, the rebuilt
\* priority-ordered list and the rebuilt tree each hold a record with the
\* deleted task's title, priority, status and due date, and search(that
\* priority) on the tree returns a record.
C11_UndoDeleteRestoresViews ==
    DeleteUndone =>
        LET t == hist[1].action[1].task_data
            index == LinkedList_to_list(app.task_list)
            tree == BST_inorder_traversal(app.task_bst).ret
        IN  /\ hist[2].raised = "no"
            /\ \E i \in 1..Len(index) : SameTask(index[i], t)
            /\ \E i \in 1..Len(tree) : SameTask(tree[i], t)
            /\ BST_search(app.task_bst, t.priority).ret # None

\* Task C (priority 2) was deleted while Task A was in the store too, and
\* the undo has put it back
C11_Witness ==
    /\ DeleteUndone
    /\ hist[1].action[1].task_data.title = "Task C"
    /\ Len(hist[1].after) = 1
    /\ Len(app.db.rows) = 2
    /\ BST_search(app.task_bst, 2).ret # None

\* the number of records of view that carry id
Count(view, id) == Cardinality({i \in 1..Len(view) : view[i].id = id})

\* every id of the store is once in view, and view holds no other id
MirrorsStore(view) ==
    /\ \A id \in Ids(app.db.rows) : Count(view, id) = 1
    /\ \A i \in 1..Len(view) : view[i].id \in Ids(app.db.rows)

\* C12: between handler invocations, each id of the store is exactly once
\* in the ordered list, exactly once in the tree and exactly once in the
\* queue, and none of them holds an id the store does not hold.
C12_ViewsMirrorStore ==
    /\ MirrorsStore(LinkedList_to_list(app.task_list))
    /\ MirrorsStore(BST_inorder_traversal(app.task_bst).ret)
    /\ MirrorsStore(app.task_queue.items)

\* an undo has put a deleted record back under a new id, next to another
\* record: the store holds ids 2 and 3
C12_Witness ==
    /\ hist # <<>> /\ Ago(0).op = "undo"
    /\ Ids(app.db.rows) = {2, 3}
    /\ Len(app.task_queue.items) = 2

----------------------------------------------------------------------------
(* Further properties of the Stack, under SpecStack. *)

\* the number of push calls made
Pushes == Cardinality({i \in 1..Len(hist) : hist[i].op = "push"})

\* the calls so far were n >= 1 pushes, no more than max_size, and then
\* pop calls, no more than n
PushesThenPops ==
    /\ Pushes >= 1
    /\ Pushes <= stack.max_size
    /\ Len(hist) <= 2 * Pushes
    /\ \A i \in 1..Len(hist) : hist[i].op = IF i <= Pushes THEN "push" ELSE "pop"

\* C13: after pushes that do not exceed max_size, successive pop() calls
\* return the pushed items in reverse push order, each pop decreasing
\* size() by one.
C13_LifoOrder ==
    PushesThenPops =>
        LET n == Pushes
            pops == Len(hist) - n
        IN  /\ \A j \in 1..pops :
                  /\ hist[n + j].raised = "no"
                  /\ hist[n + j].ret = Some(hist[n - j + 1].arg)
            /\ Stack_size(stack) = n - pops
            /\ stack.items = [i \in 1..(n - pops) |-> hist[i].arg]

\* push(a); push(b); pop(); pop() gave b, then a
C13_Witness ==
    /\ PushesThenPops
    /\ Len(hist) = 4
    /\ hist[1].arg = "a" /\ hist[2].arg = "b"
    /\ hist[3].ret = Some("b") /\ hist[4].ret = Some("a")
    /\ Stack_is_empty(stack)

----------------------------------------------------------------------------
(* Further properties of the UndoRedoManager, under SpecUrm. *)

\* the step is a call of op
Calls(op) == hist' = Append(hist, hist'[Len(hist')]) /\ hist'[Len(hist')].op = op

\* C14: undo() with an empty undo stack returns None and leaves the undo
\* stack and the redo stack unchanged; redo() with an empty redo stack
\* returns None and leaves both stacks unchanged.
C14_NothingToUndoOrRedo ==
    [][ /\ (Calls("undo") /\ Stack_is_empty(undo_redo.undo_stack)) =>
              /\ hist'[Len(hist')].ret = None
              /\ hist'[Len(hist')].raised = "no"
              /\ undo_redo'.undo_stack = undo_redo.undo_stack
              /\ undo_redo'.redo_stack = undo_redo.redo_stack
        /\ (Calls("redo") /\ Stack_is_empty(undo_redo.redo_stack)) =>
              /\ hist'[Len(hist')].ret = None
              /\ hist'[Len(hist')].raised = "no"
              /\ undo_redo'.undo_stack = undo_redo.undo_stack
              /\ undo_redo'.redo_stack = undo_redo.redo_stack ]_vars

\* execute_action; redo() found nothing to redo and the undo stack kept its
\* action; undo(); undo() found nothing to undo and the redo stack kept its
\* action
C14_Witness ==
    /\ Len(hist) = 4
    /\ hist[1].op = "execute_action" /\ hist[1].raised = "no"
    /\ hist[2].op = "redo" /\ hist[2].ret = None
    /\ hist[3].op = "undo" /\ hist[3].ret = hist[1].arg
    /\ hist[4].op = "undo" /\ hist[4].ret = None
    /\ Stack_size(undo_redo.redo_stack) = 1
    /\ Stack_is_empty(undo_redo.undo_stack)

\* the number of calls of op made
CallsOf(op) == Cardinality({i \in 1..Len(hist) : hist[i].op = op})

\* the calls so far were n >= 1 execute_action calls, no more than
\* max_history, then undo calls, no more than n, then, after n undo calls,
\* redo calls, no more than n
ExecutedUndoneRedone ==
    LET n == CallsOf("execute_action")
        undos == CallsOf("undo")
        redos == CallsOf("redo")
    IN  /\ n >= 1 /\ n <= undo_redo.max_history
        /\ undos <= n /\ redos <= n
        /\ redos > 0 => undos = n
        /\ \A i \in 1..Len(hist) :
              hist[i].op = IF i <= n THEN "execute_action"
                           ELSE IF i <= n + undos THEN "undo" ELSE "redo"

\* C15: after execute_action of A1..An (n <= max_history) and no undo in
\* between, n undo() calls return An, ..., A1, each returned action becoming
\* the top of the redo stack, and n redo() calls then return A1, ..., An.
C15_UndoRedoOrder ==
    ExecutedUndoneRedone =>
        LET n == CallsOf("execute_action")
            undos == CallsOf("undo")
            redos == CallsOf("redo")
        IN  /\ \A i \in 1..Len(hist) : hist[i].raised = "no"
            /\ \A j \in 1..undos : hist[n + j].ret = hist[n - j + 1].arg
            /\ (undos >= 1 /\ redos = 0) =>
                  Stack_peek(undo_redo.redo_stack).ret = hist[n + undos].ret
            /\ \A j \in 1..redos : hist[n + undos + j].ret = hist[j].arg

\* two different actions were executed, undone in reverse order and redone
\* in the order of execution
C15_Witness ==
    /\ ExecutedUndoneRedone
    /\ Len(hist) = 6
    /\ hist[1].arg # hist[2].arg
    /\ hist[3].ret = hist[2].arg /\ hist[4].ret = hist[1].arg
    /\ hist[5].ret = hist[1].arg /\ hist[6].ret = hist[2].arg

----------------------------------------------------------------------------
(* Further properties of the TaskLinkedList, under SpecList. *)

\* the step is a call of op on the list
ListCalls(op) == hist'[1].op = op

\* the list and the last call on it, the only variables a step of SpecList
\* changes; the call's fields come op first, so that two calls of different
\* methods are told apart before their arguments and results are compared
ListView ==
    <<task_list,
      IF hist = <<>> THEN <<>>
      ELSE <<hist[1].op, hist[1].raised, hist[1].arg, hist[1].ret>>>>

\* the records of l are in non-increasing priority order
PrioritySorted(l) ==
    \A i \in 1..(Len(l) - 1) :
        Get(l[i], "priority", 0) >= Get(l[i + 1], "priority", 0)

\* the index of the first record of l of priority strictly lower than p,
\* Len(l) + 1 when there is none
FirstLower(l, p) ==
    LET lower == {i \in 1..Len(l) : Get(l[i], "priority", 0) < p}
    IN  IF lower = {} THEN Len(l) + 1
        ELSE CHOOSE i \in lower : \A j \in lower : i <= j

\* l with x put in front of its k-th record
InsertedAt(l, k, x) == SubSeq(l, 1, k - 1) \o <<x>> \o SubSeq(l, k, Len(l))

\* C16: insert_task_by_priority of a record of priority p into a
\* priority-sorted list places it immediately before the first record of
\* priority strictly lower than p (at the tail if there is none), after
\* every record of priority p, the other records keeping their order.
C16_PriorityTieRule ==
    [][ (/\ ListCalls("insert_task_by_priority")
         /\ PrioritySorted(LinkedList_to_list(task_list))) =>
            LET l == LinkedList_to_list(task_list)
                task == hist'[1].arg
            IN  /\ hist'[1].raised = "no"
                /\ LinkedList_to_list(task_list') =
                       InsertedAt(l, FirstLower(l, Get(task, "priority", 0)), task)
      ]_ListView

\* Task D (priority 3) was inserted into the sorted list of Task A (3) and
\* Task C (2): it went behind Task A and in front of Task C
C16_Witness ==
    /\ hist # <<>>
    /\ Ago(0).op = "insert_task_by_priority"
    /\ Ago(0).arg = Task(4, "Task D", 3, "todo", Dec15)
    /\ Column("id", None) = <<1, 4, 3>>

----------------------------------------------------------------------------
(* Further properties of the BST, under SpecBst. *)

\* the priorities of the records in the subtree of node
SubtreePriorities(node) ==
    LET tasks == BST_inorder_rec(bst.nodes, node)
    IN  {tasks[i].priority : i \in 1..Len(tasks)}

\* C17: after any sequence of insert calls, every record in the left
\* subtree of a node has a strictly smaller priority than the node's record
\* and every record in its right subtree a priority greater than or equal
\* to it; the nodes are those of the tree under root.
C17_SearchTreeOrder ==
    /\ Len(BST_inorder_rec(bst.nodes, bst.root)) = Len(bst.nodes)
    /\ \A n \in 1..Len(bst.nodes) :
          /\ \A q \in SubtreePriorities(bst.nodes[n].left) :
                 q < bst.nodes[n].task.priority
          /\ \A q \in SubtreePriorities(bst.nodes[n].right) :
                 q >= bst.nodes[n].task.priority

\* priorities 3, 2, 5, 3 were inserted: the root has a left and a right
\* subtree, and the second record of priority 3 is in the right one
C17_Witness ==
    /\ [i \in 1..Len(hist) |-> hist[i].arg.priority] = <<3, 2, 5, 3>>
    /\ SubtreePriorities(bst.nodes[bst.root].left) = {2}
    /\ SubtreePriorities(bst.nodes[bst.root].right) = {3, 5}

\* l without its k-th record
RemovedAt(l, k) == SubSeq(l, 1, k - 1) \o SubSeq(l, k + 1, Len(l))

\* the indices of the records of l that carry id
WithId(l, id) == {i \in 1..Len(l) : Get(l[i], "id", None) = id}

\* the smallest of a non-empty set of indices
First(indices) == CHOOSE i \in indices : \A j \in indices : i <= j

\* C18: delete_task_by_id(id) removes and returns the first record whose id
\* matches, the other records keeping their relative order and size going
\* down by one; when no record has that id (the empty list included) it
\* returns None and leaves the contents, head, tail and size unchanged.
C18_DeleteTaskById ==
    [][ ListCalls("delete_task_by_id") =>
            LET l == LinkedList_to_list(task_list)
                hits == WithId(l, hist'[1].arg)
            IN  /\ hist'[1].raised = "no"
                /\ hits = {} =>
                      /\ hist'[1].ret = None
                      /\ task_list' = task_list
                /\ hits # {} =>
                      /\ hist'[1].ret = Some(l[First(hits)])
                      /\ LinkedList_to_list(task_list') = RemovedAt(l, First(hits))
                      /\ task_list'.size = task_list.size - 1
      ]_ListView

\* delete_task_by_id(1) on a list that held Task A twice, with Task B in
\* between, removed the first Task A and returned it
C18_Witness ==
    /\ hist # <<>>
    /\ Ago(0).op = "delete_task_by_id"
    /\ Ago(0).arg = 1
    /\ Ago(0).ret = Some(Task(1, "Task A", 3, "todo", Dec31))
    /\ Column("id", None) = <<2, 1>>
    /\ task_list.size = 2

\* the index of the record that the call hist'[1] is to remove from l: the
\* first one carrying the id (delete_task_by_id), or equal to the value
\* (delete_by_value); 0 when there is none or the call is another
ToRemove(l) ==
    LET hits == IF hist'[1].op = "delete_task_by_id"
                THEN WithId(l, hist'[1].arg)
                ELSE IF hist'[1].op = "delete_by_value"
                THEN {i \in 1..Len(l) : l[i] = hist'[1].arg}
                ELSE {}
    IN  IF hits = {} THEN 0 ELSE First(hits)

\* C19: when delete_task_by_id or delete_by_value removes the last node of
\* a list of two nodes or more, tail is the new last node afterwards, so
\* that insert_at_tail(x) then makes x the last element of to_list() and
\* loses none; when it removes the only node, head and tail are None.
C19_TailRepair ==
    [][ LET l == LinkedList_to_list(task_list)
            left == LinkedList_to_list(task_list')
            chain == ChainFrom(task_list'.nodes, task_list'.head, {})
        IN  (Len(l) >= 1 /\ ToRemove(l) = Len(l)) =>
              /\ hist'[1].raised = "no"
              /\ left = ButLast(l)
              /\ Len(l) = 1 => task_list'.head = Nil /\ task_list'.tail = Nil
              /\ Len(l) >= 2 =>
                    /\ task_list'.tail = chain[Len(chain)]
                    /\ task_list'.nodes[task_list'.tail].next = Nil
                    /\ \A x \in ListTasks :
                          LET r == LinkedList_insert_at_tail(task_list', x)
                          IN  /\ r.raised = "no"
                              /\ LinkedList_to_list(r.self) = Append(left, x)
      ]_ListView

\* delete_by_value removed the last of three nodes, and the list went on
\* from Task B, Task A
C19_Witness ==
    /\ hist # <<>>
    /\ Ago(0).op = "delete_by_value"
    /\ Ago(0).arg = Task(3, "Task C", 2, "in_progress", Dec01)
    /\ Ago(0).ret = TRUE
    /\ Column("id", None) = <<2, 1>>
    /\ task_list.nodes[task_list.tail].data.id = 1

\* C20: insert_at_position(pos, x) with pos < 0 or pos > size returns False
\* and leaves the list unchanged, and with 0 <= pos <= size returns True
\* with x at index pos and the previous elements in their previous order;
\* get_at_index and update_at_index with index < 0 or index >= size return
\* None and False and do not change the list.
C20_InvalidPosition ==
    [][ LET l == LinkedList_to_list(task_list)
            size == task_list.size
            call == hist'[1]
        IN  /\ call.op = "insert_at_position" =>
                  LET pos == call.arg[1]
                      x == call.arg[2]
                  IN  /\ call.raised = "no"
                      /\ (pos < 0 \/ pos > size) =>
                            call.ret = FALSE /\ task_list' = task_list
                      /\ (0 <= pos /\ pos <= size) =>
                            /\ call.ret = TRUE
                            /\ LinkedList_to_list(task_list') =
                                   InsertedAt(l, pos + 1, x)
            /\ (call.op = "get_at_index"
                   /\ (call.arg < 0 \/ call.arg >= size)) =>
                  /\ call.raised = "no" /\ call.ret = None
                  /\ task_list' = task_list
            /\ (call.op = "update_at_index"
                   /\ (call.arg[1] < 0 \/ call.arg[1] >= size)) =>
                  /\ call.raised = "no" /\ call.ret = FALSE
                  /\ task_list' = task_list
      ]_ListView

\* insert_at_position(3, x) on a list of two records was refused
C20_Witness ==
    /\ hist # <<>>
    /\ Ago(0).op = "insert_at_position"
    /\ Ago(0).arg[1] = 3
    /\ Ago(0).ret = FALSE
    /\ task_list.size = 2
    /\ Column("id", None) = <<2, 1>>

\* C21: get_tasks_by_status(s) and get_high_priority_tasks(m) leave the
\* list (order, contents, head, tail, size) unchanged and return exactly the
\* records of status s (of priority >= m), in the order of to_list().
C21_FiltersArePure ==
    [][ LET l == LinkedList_to_list(task_list)
            call == hist'[1]
        IN  /\ call.op = "get_tasks_by_status" =>
                  /\ call.raised = "no"
                  /\ task_list' = task_list
                  /\ call.ret = SelectSeq(l, LAMBDA t : t.status = call.arg)
            /\ call.op = "get_high_priority_tasks" =>
                  /\ call.raised = "no"
                  /\ task_list' = task_list
                  /\ call.ret = SelectSeq(l, LAMBDA t : t.priority >= call.arg)
      ]_ListView

\* get_high_priority_tasks(3) on the list Task C (2), Task D (3), Task B (5)
\* returned Task D and Task B, in that order
C21_Witness ==
    /\ hist # <<>>
    /\ Ago(0).op = "get_high_priority_tasks"
    /\ Ago(0).arg = 3
    /\ Column("id", None) = <<3, 4, 2>>
    /\ [i \in 1..Len(Ago(0).ret) |-> Ago(0).ret[i].id] = <<4, 2>>

----------------------------------------------------------------------------
(* Properties of single Stack calls: C22 under SpecStack, the others under *)
(* SpecStackCalls.                                                         *)

\* C22: on a Stack with max_size >= 1, in any state, a full stack included,
\* push(item) returns True, and item is then the top of the stack: peek()
\* returns it.
C22_PushNeverRejects ==
    stack.max_size >= 1 =>
        /\ \A i \in 1..Len(hist) :
              hist[i].op = "push" => hist[i].raised = "no" /\ hist[i].ret = TRUE
        /\ (hist # <<>> /\ Ago(0).op = "push") =>
              /\ Stack_peek(stack).ret = Some(Ago(0).arg)
              /\ ~Stack_is_empty(stack)

\* push(a); push(b) on a Stack of max_size 1: the second push met a full
\* stack, and b is the only item
C22_Witness ==
    /\ stack.max_size = 1
    /\ Len(hist) = 2
    /\ hist[1].op = "push" /\ hist[1].arg = "a"
    /\ hist[2].op = "push" /\ hist[2].arg = "b" /\ hist[2].ret = TRUE
    /\ stack.items = <<"b">>

\* the stack and the last call on it, the only variables a step of
\* SpecStackCalls changes; the call's fields come op first, so that two
\* calls of different methods are told apart before their arguments and
\* results are compared
StackView ==
    <<stack,
      IF hist = <<>> THEN <<>>
      ELSE <<hist[1].op, hist[1].raised, hist[1].arg, hist[1].ret>>>>

\* C23: pop() on an empty Stack returns None and leaves it empty; on a
\* non-empty Stack it returns the item pushed last among those left, the
\* top, and removes exactly that item.
C23_Pop ==
    [][ hist'[1].op = "pop" =>
            /\ hist'[1].raised = "no"
            /\ stack.items = <<>> =>
                  hist'[1].ret = None /\ stack'.items = <<>>
            /\ stack.items # <<>> =>
                  /\ hist'[1].ret = Some(stack.items[Len(stack.items)])
                  /\ Append(stack'.items, hist'[1].ret[1]) = stack.items
      ]_StackView

\* pop() took c off a stack of three items
C23_Witness ==
    /\ hist # <<>>
    /\ Ago(0).op = "pop"
    /\ Ago(0).ret = Some("c")
    /\ stack.items = <<"a", "b">>
    /\ stack.operation_count = 4

\* C24: peek() returns, in every state, the item the next pop() would
\* return (None when the stack is empty) and leaves the items and size()
\* unchanged.
C24_PeekIsPure ==
    [][ hist'[1].op = "peek" =>
            /\ hist'[1].raised = "no"
            /\ hist'[1].ret = Stack_pop(stack').ret
            /\ stack.items = <<>> => hist'[1].ret = None
            /\ stack'.items = stack.items
            /\ Stack_size(stack') = Stack_size(stack)
      ]_StackView

\* peek() showed b on the stack a, b and left both
C24_Witness ==
    /\ hist # <<>>
    /\ Ago(0).op = "peek"
    /\ Ago(0).ret = Some("b")
    /\ stack.items = <<"a", "b">>

\* the distances from the top at which item lies in items
Distances(items, item) ==
    {Len(items) - i : i \in {j \in 1..Len(items) : items[j] = item}}

\* C25: search(item) returns the distance from the top (0 = top) of the
\* occurrence of item nearest the top, -1 when the item is not in the
\* stack, and does not change the stack.
C25_Search ==
    [][ hist'[1].op = "search" =>
            LET found == Distances(stack.items, hist'[1].arg)
            IN  /\ hist'[1].raised = "no"
                /\ stack' = stack
                /\ found = {} => hist'[1].ret = -1
                /\ found # {} =>
                      /\ hist'[1].ret \in found
                      /\ \A distance \in found : hist'[1].ret <= distance
      ]_StackView

\* search(a) on the stack a, a, b found the a one below the top
C25_Witness ==
    /\ hist # <<>>
    /\ Ago(0).op = "search"
    /\ Ago(0).arg = "a"
    /\ Ago(0).ret = 1
    /\ stack.items = <<"a", "a", "b">>

\* C26: get_recent_items(n) returns the min(n, size()) items pushed last
\* among those in the stack, oldest first: the empty list for n <= 0, all
\* items for n >= size(); it does not change the stack.
C26_RecentItems ==
    [][ hist'[1].op = "get_recent_items" =>
            LET n == hist'[1].arg
                size == Stack_size(stack)
                recent == hist'[1].ret
            IN  /\ hist'[1].raised = "no"
                /\ stack' = stack
                /\ n <= 0 => recent = <<>>
                /\ n >= size => recent = stack.items
                /\ n > 0 =>
                      /\ Len(recent) = Min(n, size)
                      /\ \A i \in 1..Len(recent) :
                            recent[i] = stack.items[size - Len(recent) + i]
      ]_StackView

\* get_recent_items(2) on the stack a, b, c returned b, c
C26_Witness ==
    /\ hist # <<>>
    /\ Ago(0).op = "get_recent_items"
    /\ Ago(0).arg = 2
    /\ Ago(0).ret = <<"b", "c">>
    /\ stack.items = <<"a", "b", "c">>

----------------------------------------------------------------------------
(* Properties of single UndoRedoManager calls, under SpecUrmCalls. *)

\* the manager and the last call on it, the call's fields op first
UrmView ==
    <<undo_redo,
      IF hist = <<>> THEN <<>>
      ELSE <<hist[1].op, hist[1].raised, hist[1].arg, hist[1].ret>>>>

\* C27: can_undo() is true iff the undo stack is non-empty, can_redo() is
\* true iff the redo stack is non-empty, and a call of either leaves both
\* stacks unchanged.
C27_CanUndoCanRedo ==
    [][ /\ hist'[1].op = "can_undo" =>
              /\ hist'[1].raised = "no"
              /\ hist'[1].ret = (undo_redo.undo_stack.items # <<>>)
              /\ undo_redo'.undo_stack = undo_redo.undo_stack
              /\ undo_redo'.redo_stack = undo_redo.redo_stack
        /\ hist'[1].op = "can_redo" =>
              /\ hist'[1].raised = "no"
              /\ hist'[1].ret = (undo_redo.redo_stack.items # <<>>)
              /\ undo_redo'.undo_stack = undo_redo.undo_stack
              /\ undo_redo'.redo_stack = undo_redo.redo_stack
      ]_UrmView

\* can_undo() was false on a manager whose only action had been undone and
\* lay on the redo stack
C27_Witness ==
    /\ hist # <<>>
    /\ Ago(0).op = "can_undo"
    /\ Ago(0).ret = FALSE
    /\ undo_redo.undo_stack.items = <<>>
    /\ Len(undo_redo.redo_stack.items) = 1

----------------------------------------------------------------------------
(* Properties of the handlers' undo records, under SpecApp. *)

\* the action_type that describes what handler op does to the store
Describes(op) ==
    CASE op = "save" -> "CREATE"
      [] op = "delete_selected" -> "DELETE"
      [] op = "mark_task_done" -> "UPDATE"

\* C28: every mutation a handler (add task, delete task, mark task as done)
\* commits to the store is recorded: the handler has pushed one TaskAction
\* describing it onto the undo stack, so that it can be undone.
C28_MutationsAreRecorded ==
    (/\ hist # <<>>
     /\ Ago(0).op \in {"save", "delete_selected", "mark_task_done"}
     /\ Ago(0).after # Ago(0).before) =>
        /\ Ago(0).action # None
        /\ Ago(0).action[1].action_type = Describes(Ago(0).op)
        /\ Stack_peek(app.undo_redo.undo_stack).ret = Ago(0).action
        /\ UndoRedoManager_can_undo(app.undo_redo)

----------------------------------------------------------------------------
(* Properties of the TaskLinkedList kept by priority, under SpecTaskList. *)

\* C29: after any sequence of insert_task_by_priority, update_task (any
\* fields, priority included), mark_task_complete and delete_task_by_id,
\* to_list() is in non-increasing priority order.
C29_SortedUnderUpdate == PrioritySorted(LinkedList_to_list(task_list))

----------------------------------------------------------------------------
(* Properties of the Queue, under SpecQueue. *)

\* the tasks enqueued by the first n calls, in the order of the calls
Enqueued(n) ==
    LET calls == SelectSeq([i \in 1..n |-> hist[i]],
                           LAMBDA c : c.op = "enqueue")
    IN  [i \in 1..Len(calls) |-> calls[i].arg]

\* the number of tasks that the dequeue calls among the first n calls took
Taken(n) ==
    Cardinality({i \in 1..n : hist[i].op = "dequeue" /\ hist[i].ret # None})

\* what the queue holds after the first n calls, were it first in first out
Waiting(n) == SubSeq(Enqueued(n), Taken(n) + 1, Len(Enqueued(n)))

\* C30: dequeue() returns the items in the order they were enqueued;
\* dequeue() and peek() on an empty queue return None and leave it empty;
\* peek() returns the item the next dequeue() would return and removes
\* nothing.
C30_Fifo ==
    /\ queue.items = Waiting(Len(hist))
    /\ \A i \in 1..Len(hist) :
          hist[i].op \in {"dequeue", "peek"} =>
              /\ hist[i].raised = "no"
              /\ hist[i].ret = IF Waiting(i - 1) = <<>> THEN None
                               ELSE Some(Waiting(i - 1)[1])
              /\ Waiting(i) = IF hist[i].op = "dequeue" /\ Waiting(i - 1) # <<>>
                              THEN Tail(Waiting(i - 1))
                              ELSE Waiting(i - 1)

\* enqueue(1); enqueue(2); peek() gave 1; dequeue() gave 1, then 2, then None
C30_Witness ==
    /\ Len(hist) = 6
    /\ hist[1].op = "enqueue" /\ hist[1].arg.task_id = 1
    /\ hist[2].op = "enqueue" /\ hist[2].arg.task_id = 2
    /\ hist[3].op = "peek" /\ hist[3].ret = Some(hist[1].arg)
    /\ hist[4].op = "dequeue" /\ hist[4].ret = Some(hist[1].arg)
    /\ hist[5].op = "dequeue" /\ hist[5].ret = Some(hist[2].arg)
    /\ hist[6].op = "dequeue" /\ hist[6].ret = None
    /\ Queue_is_empty(queue)

----------------------------------------------------------------------------
(* Capacity of the UndoRedoManager, under SpecUrm. *)

\* C31: with max_history k >= 1, in every state reached by execute_action,
\* undo, redo and clear_history the two stacks together hold at most k
\* actions; so each holds at most k, and the stack that undo() or redo() is
\* about to push on is not full: the push evicts nothing.
C31_SharedCapacity ==
    undo_redo.max_history >= 1 =>
        LET k == undo_redo.max_history
            undos == Stack_size(undo_redo.undo_stack)
            redos == Stack_size(undo_redo.redo_stack)
        IN  /\ undos + redos <= k
            /\ undos <= k /\ redos <= k
            /\ UndoRedoManager_can_undo(undo_redo) =>
                  ~Stack_is_full(undo_redo.redo_stack)
            /\ UndoRedoManager_can_redo(undo_redo) =>
                  ~Stack_is_full(undo_redo.undo_stack)
            /\ \A i \in 1..Len(hist) : hist[i].raised = "no"

\* max_history 2: more actions executed than the undo stack holds, then an
\* undo(): each stack holds one action, together as many as max_history
C31_Witness ==
    /\ undo_redo.max_history = 2
    /\ Len(hist) = 4
    /\ \A i \in 1..3 : hist[i].op = "execute_action"
    /\ hist[4].op = "undo" /\ hist[4].ret = hist[3].arg
    /\ Stack_size(undo_redo.undo_stack) = 1
    /\ Stack_size(undo_redo.redo_stack) = 1

\* the manager that call leaves, made on manager self
UrmAfter(self, call) ==
    CASE call.op = "execute_action" ->
             UndoRedoManager_execute_action(self, call.arg[1]).self
      [] call.op = "undo" -> UndoRedoManager_undo(self).self
      [] call.op = "redo" -> UndoRedoManager_redo(self).self
      [] call.op = "clear_history" -> UndoRedoManager_clear_history(self).self

RECURSIVE UrmState(_)
\* the manager after the first n calls of hist
UrmState(n) ==
    IF n = 0 THEN UndoRedoManager_init(undo_redo.max_history)
    ELSE UrmAfter(UrmState(n - 1), hist[n])

\* the items of the two stacks of manager self
BothStacks(self) == <<self.undo_stack.items, self.redo_stack.items>>

\* the last two calls were first and then second, and each returned an action
Pair(first, second) ==
    /\ Len(hist) >= 2
    /\ Ago(1).op = first /\ Ago(1).ret # None
    /\ Ago(0).op = second

\* C32: from any state with a non-empty undo stack, undo(); redo() leaves the
\* items of both stacks as they were; from any state with a non-empty redo
\* stack, redo(); undo() does.
C32_UndoRedoInverse ==
    /\ UrmState(Len(hist)) = undo_redo
    /\ (Pair("undo", "redo") \/ Pair("redo", "undo")) =>
          /\ Ago(0).raised = "no" /\ Ago(1).raised = "no"
          /\ Ago(0).ret = Ago(1).ret
          /\ BothStacks(undo_redo) = BothStacks(UrmState(Len(hist) - 2))

\* undo(); redo() where both stacks held an action, and redo(); undo() after
\* it
C32_Witness ==
    /\ Len(hist) = 6
    /\ hist[1].op = "execute_action" /\ hist[2].op = "execute_action"
    /\ hist[1].arg # hist[2].arg
    /\ hist[3].op = "undo"
    /\ hist[4].op = "undo" /\ hist[4].ret = hist[1].arg
    /\ hist[5].op = "redo" /\ hist[5].ret = hist[1].arg
    /\ hist[6].op = "undo" /\ hist[6].ret = hist[1].arg
    /\ BothStacks(UrmState(3)) = BothStacks(UrmState(5))
    /\ BothStacks(UrmState(4)) = BothStacks(undo_redo)

\* the calls so far were n execute_action calls, more than max_history >= 1,
\* and then undo calls, no more than max_history + 1
ExecutedPastCapacity ==
    LET n == CallsOf("execute_action")
    IN  /\ undo_redo.max_history >= 1
        /\ n > undo_redo.max_history
        /\ Len(hist) <= n + undo_redo.max_history + 1
        /\ \A i \in 1..Len(hist) :
              hist[i].op = IF i <= n THEN "execute_action" ELSE "undo"

\* C33: after n > k execute_action calls on a manager with max_history
\* k >= 1, the next k undo() calls return the k most recently executed
\* actions, newest first, and the (k+1)-th returns None; the two stacks hold
\* the k most recent actions and none of the n - k oldest.
C33_EvictionBoundsUndo ==
    ExecutedPastCapacity =>
        LET n == CallsOf("execute_action")
            k == undo_redo.max_history
            undos == Len(hist) - n
            executed == [i \in 1..n |-> hist[i].arg[1]]
        IN  /\ \A i \in 1..Len(hist) : hist[i].raised = "no"
            /\ \A j \in 1..undos :
                  hist[n + j].ret = IF j <= k THEN hist[n - j + 1].arg
                                   ELSE None
            /\ undo_redo.undo_stack.items
                   \o Reverse(undo_redo.redo_stack.items) = LastN(executed, k)

\* max_history 2, three different actions executed, three undo() calls: the
\* third found nothing, the action executed first was never returned
C33_Witness ==
    /\ ExecutedPastCapacity
    /\ undo_redo.max_history = 2
    /\ Len(hist) = 6
    /\ hist[4].op = "undo" /\ hist[6].ret = None
    /\ \A i \in 2..3 : hist[i].arg # hist[1].arg
    /\ \A j \in 4..6 : hist[j].ret # hist[1].arg
    /\ Stack_is_empty(undo_redo.undo_stack)

----------------------------------------------------------------------------
(* Further properties of the BST, under SpecBst. *)

\* the calls that inserted a record of priority p
InsertsOf(p) == {i \in 1..Len(hist) : hist[i].arg.priority = p}

\* C34: when several inserted records share priority p, search(p) returns
\* the one inserted earliest among them, whatever was inserted before,
\* between or after them.
C34_SearchFindsEarliest ==
    \A p \in SearchKeys :
        InsertsOf(p) # {} =>
            LET earliest == CHOOSE i \in InsertsOf(p) :
                                \A j \in InsertsOf(p) : i <= j
            IN  BST_search(bst, p).ret = Some(hist[earliest].arg)

\* Task A (priority 3), then a record of another priority, then Task D
\* (priority 3), then one more record: search(3) returns Task A
C34_Witness ==
    /\ Len(hist) = 4
    /\ hist[1].arg.id = 1 /\ hist[3].arg.id = 4
    /\ hist[2].arg.priority # 3
    /\ BST_search(bst, 3).ret = Some(hist[1].arg)
    /\ BST_search(bst, 3).ret # Some(hist[3].arg)

RECURSIVE StableByPriority(_)
\* the stable ascending sort by priority of the records s
StableByPriority(s) ==
    IF s = <<>> THEN <<>>
    ELSE LET rest == StableByPriority(ButLast(s))
             task == s[Len(s)]
             k == Cardinality({i \in 1..Len(rest) :
                                  rest[i].priority <= task.priority})
         IN  SubSeq(rest, 1, k) \o <<task>> \o SubSeq(rest, k + 1, Len(rest))

\* the records inserted so far, in insertion order
Inserted == [i \in 1..Len(hist) |-> hist[i].arg]

\* C35: for every insertion sequence, inorder_traversal() is the stable
\* ascending sort by priority of the sequence: records of equal priority
\* come in the order they were inserted.
C35_InorderStable ==
    BST_inorder_traversal(bst).ret = StableByPriority(Inserted)

\* Task D, Task B, Task A, Task C inserted (priorities 3, 5, 3, 2): the
\* traversal is Task C, Task D, Task A, Task B
C35_Witness ==
    /\ [i \in 1..Len(hist) |-> hist[i].arg.id] = <<4, 2, 1, 3>>
    /\ LET t == BST_inorder_traversal(bst).ret
       IN  [i \in 1..Len(t) |-> t[i].id] = <<3, 4, 1, 2>>

\* the child pointers of the first n nodes: <<node, side, child>>
Links(nodes, n) ==
    {<<m, "left", nodes[m].left>> : m \in 1..n}
        \cup {<<m, "right", nodes[m].right>> : m \in 1..n}

\* the step is an insert that adds one TaskNode, a leaf holding the record,
\* and hangs it on the root pointer of an empty tree or else on one child
\* pointer that was None; no other pointer and no record changes
AttachesOneLeaf ==
    LET old == Len(bst.nodes)
        new == old + 1
        changed == Links(bst'.nodes, old) \ Links(bst.nodes, old)
    IN  /\ Len(bst'.nodes) = new
        /\ bst'.nodes[new] = TaskNode(hist'[Len(hist')].arg)
        /\ \A n \in 1..old : bst'.nodes[n].task = bst.nodes[n].task
        /\ IF bst.root = Nil
           THEN bst'.root = new /\ changed = {}
           ELSE /\ bst'.root = bst.root
                /\ Cardinality(changed) = 1
                /\ \A l \in changed :
                      /\ l[3] = new
                      /\ <<l[1], l[2], Nil>> \in Links(bst.nodes, old)

\* C36: insert never rejects and never restructures: after n inserts
\* inorder_traversal() holds exactly the n inserted records, each as often
\* as it was inserted, and each insert leaves every node's record and
\* children as they were but for one new leaf.
C36_InsertOnlyAttaches ==
    /\ [](LET t == BST_inorder_traversal(bst).ret
          IN  /\ Len(t) = Len(hist)
              /\ \A task \in BstTasks :
                    Cardinality({i \in 1..Len(t) : t[i] = task})
                        = Cardinality({i \in 1..Len(hist) : hist[i].arg = task}))
    /\ [][AttachesOneLeaf]_vars

\* Task A inserted three times and Task B once: the traversal holds Task A
\* three times, in a chain of right children
C36_Witness ==
    /\ [i \in 1..Len(hist) |-> hist[i].arg.id] = <<1, 1, 2, 1>>
    /\ LET t == BST_inorder_traversal(bst).ret
       IN  [i \in 1..Len(t) |-> t[i].id] = <<1, 1, 1, 2>>
    /\ bst.nodes[1].right = 2 /\ bst.nodes[2].right = 3
    /\ bst.nodes[3].left = 4

----------------------------------------------------------------------------
(* Record ids across undo, under SpecApp. *)

\* C37: after a task with id i is deleted and the DELETE is undone, the
\* store holds that task's data under the same id i.
C37_IdStableAcrossUndo ==
    DeleteUndone =>
        LET t == hist[1].action[1].task_data
        IN  \E i \in 1..Len(app.db.rows) :
                /\ app.db.rows[i].id = t.id
                /\ SameTask(app.db.rows[i], t)

----------------------------------------------------------------------------
(* The due-date tie rule, under SpecDueDate. *)

RECURSIVE StableByDueDate(_)
\* the stable ascending sort by due_date of the records s
StableByDueDate(s) ==
    IF s = <<>> THEN <<>>
    ELSE LET rest == StableByDueDate(ButLast(s))
             due_date == Get(s[Len(s)], "due_date", DefaultDueDate)
             k == Cardinality({i \in 1..Len(rest) :
                      Str_le(Get(rest[i], "due_date", DefaultDueDate), due_date)})
         IN  SubSeq(rest, 1, k) \o <<s[Len(s)]>> \o SubSeq(rest, k + 1, Len(rest))

\* C38: for every sequence of insert_task_by_due_date calls on an empty
\* list, to_list() is the stable ascending sort by due_date of the inserted
\* records: a new record stands after every record of an equal due date and
\* before the first of a later one.
C38_DueDateTieRule ==
    /\ \A i \in 1..Len(hist) : hist[i].raised = "no"
    /\ LinkedList_to_list(task_list) = StableByDueDate(Inserted)

\* Task B (due 2024-12-15), Task A (2024-12-31), Task D (2024-12-15) and
\* Task C (2024-12-01) inserted in that order read back C, B, D, A
C38_Witness ==
    /\ [i \in 1..Len(hist) |-> hist[i].arg.id] = <<2, 1, 4, 3>>
    /\ Column("id", 0) = <<3, 2, 4, 1>>

----------------------------------------------------------------------------
(* delete_at_tail, under SpecList. *)

\* C39: in every list the mutators build, delete_at_tail() comes back (its
\* walk to the node before tail neither runs off the list nor goes round
\* for ever); it returns the last element of to_list() and leaves the other
\* elements in order, or returns None on an empty list.
C39_DeleteAtTail ==
    [][ LET l == LinkedList_to_list(task_list)
        IN  ListCalls("delete_at_tail") =>
              /\ hist'[1].raised = "no"
              /\ IF l = <<>>
                 THEN /\ hist'[1].ret = None
                      /\ task_list' = task_list
                 ELSE /\ hist'[1].ret = Some(l[Len(l)])
                      /\ LinkedList_to_list(task_list') = ButLast(l)
                      /\ task_list'.size = task_list.size - 1
      ]_ListView

\* delete_at_tail() took Task C off the end of a list of three and left
\* Task B, Task A
C39_Witness ==
    /\ hist # <<>>
    /\ Ago(0).op = "delete_at_tail"
    /\ Ago(0).ret = Some(Task(3, "Task C", 2, "in_progress", Dec01))
    /\ task_list.size = 2
    /\ Column("id", None) = <<2, 1>>
    /\ task_list.nodes[task_list.tail].data.id = 1

----------------------------------------------------------------------------
(* A Stack of max_size 0, under SpecStack. *)

\* C40: on a Stack constructed with max_size 0, push raises no error and
\* size() stays within max_size.
C40_PushOnZeroCapacity ==
    stack.max_size = 0 =>
        /\ \A i \in 1..Len(hist) : hist[i].op = "push" => hist[i].raised = "no"
        /\ Stack_size(stack) <= stack.max_size

====
